---- MODULE Spec2Model ----
(***************************************************************************)
(* Feedback store (voyager/refinement/store.py) and skill detector         *)
(* (voyager/refinement/detector.py) of code-voyager.                       *)
(*                                                                         *)
(* Text is a sequence of one-character strings, so that strip, lower,      *)
(* replace, startswith, slicing and substring tests are computed.          *)
(* SQLite REAL arithmetic is exact rational arithmetic on [num, den]       *)
(* records in lowest terms (IEEE rounding is not modelled).                *)
(***************************************************************************)
EXTENDS Integers, Sequences, FiniteSets, TLC

VARIABLES learned_associations, tool_executions, session_summaries,
          sqlite_sequence, clock, observed, call, procs

vars == <<learned_associations, tool_executions, session_summaries,
          sqlite_sequence, clock, observed, call, procs>>

(* ---------------------------- bounds ---------------------------------- *)

\* number of operations in one run (also the range of datetime.now)
MaxOps == 3
\* lines in a transcript file
MaxLines == 3
\* processes that run a store operation at the same time
MaxProcs == 3
\* call_claude calls open at once in one process
MaxNest == 2
\* processes in one process tree
MaxSpawn == 5

\* lines of a .gitignore whose rules are applied to one path
MaxRules == 2

(* ------------------------- text helpers -------------------------------- *)

\* Python / JSON / SQL values carry their type
None == [t |-> "none"]
Str(s) == [t |-> "str", v |-> s]
Num(n) == [t |-> "int", v |-> n]
List(l) == [t |-> "list", v |-> l]
Dict(f) == [t |-> "dict", v |-> f]
NULL == None

Min(a, b) == IF a < b THEN a ELSE b

\* s[:n]
Take(s, n) == SubSeq(s, 1, Min(n, Len(s)))

\* s[n:] (n counted from 0)
Drop(s, n) == SubSeq(s, Min(n, Len(s)) + 1, Len(s))

\* str.startswith
StartsWith(s, p) == Len(s) >= Len(p) /\ SubSeq(s, 1, Len(p)) = p

\* `needle in haystack` for str
Contains(s, p) ==
    \E i \in 1..(Len(s) - Len(p) + 1) : SubSeq(s, i, i + Len(p) - 1) = p

Whitespace == {" ", "\t", "\n"}

\* str.strip
RECURSIVE LStrip(_)
LStrip(s) == IF s # <<>> /\ Head(s) \in Whitespace THEN LStrip(Tail(s)) ELSE s

RECURSIVE RStrip(_)
RStrip(s) ==
    IF s # <<>> /\ s[Len(s)] \in Whitespace
    THEN RStrip(SubSeq(s, 1, Len(s) - 1)) ELSE s

Strip(s) == RStrip(LStrip(s))

LowerCase ==
    <<"a", "b", "c", "d", "e", "f", "g", "h", "i", "j", "k", "l", "m",
      "n", "o", "p", "q", "r", "s", "t", "u", "v", "w", "x", "y", "z">>
UpperCase ==
    <<"A", "B", "C", "D", "E", "F", "G", "H", "I", "J", "K", "L", "M",
      "N", "O", "P", "Q", "R", "S", "T", "U", "V", "W", "X", "Y", "Z">>
Digits == {"0", "1", "2", "3", "4", "5", "6", "7", "8", "9"}

\* str.lower
Lower(s) ==
    [i \in 1..Len(s) |->
        IF \E n \in 1..26 : UpperCase[n] = s[i]
        THEN LowerCase[CHOOSE n \in 1..26 : UpperCase[n] = s[i]]
        ELSE s[i]]

\* str.replace(c, "")
RECURSIVE RemoveChar(_, _)
RemoveChar(s, c) ==
    IF s = <<>> THEN <<>>
    ELSE IF Head(s) = c THEN RemoveChar(Tail(s), c)
         ELSE <<Head(s)>> \o RemoveChar(Tail(s), c)

AlnumChars ==
    {LowerCase[n] : n \in 1..26} \cup {UpperCase[n] : n \in 1..26} \cup Digits

\* str.isalnum on one character
IsAlnum(c) == c \in AlnumChars

(* ----------------------- rational arithmetic --------------------------- *)

RECURSIVE GCD(_, _)
GCD(a, b) == IF b = 0 THEN a ELSE GCD(b, a % b)

Rat(n, d) == LET g == GCD(n, d) IN [num |-> n \div g, den |-> d \div g]

RatAdd(x, y) == Rat(x.num * y.den + y.num * x.den, x.den * y.den)

RatMulInt(x, k) == Rat(x.num * k, x.den)

RatDivInt(x, k) == Rat(x.num, x.den * k)

(* --------------------------- store ------------------------------------- *)

\* context keys used by direct callers of the store
Key1 == <<"Write", <<".", "d", "o", "c", "x">>, <<>>>>
Key2 == <<"Bash", <<>>, <<"g", "i", "t">>>>
StoreKeys == {Key1, Key2}

Docx == <<"d", "o", "c", "x">>
Pdf == <<"p", "d", "f">>
SkillIds == {Str(Docx), Str(Pdf)}

\* confidences passed to learn_association
Confidences == {Rat(1, 1), Rat(1, 2)}

\* learn_association averaging the stored and the observed confidence
\* without weighting by hit_count
learn_association_unweighted(table, context_key, skill_id, confidence, now) ==
    IF context_key \in DOMAIN table
    THEN LET old == table[context_key] IN
         [k \in DOMAIN table |->
            IF k = context_key
            THEN [skill_id |-> skill_id,
                  confidence |->
                      RatDivInt(RatAdd(old.confidence, confidence), 2),
                  hit_count |-> old.hit_count + 1,
                  created_at |-> old.created_at,
                  updated_at |-> now]
            ELSE table[k]]
    ELSE [k \in DOMAIN table \cup {context_key} |->
            IF k = context_key
            THEN [skill_id |-> skill_id, confidence |-> confidence,
                  hit_count |-> 1, created_at |-> now, updated_at |-> now]
            ELSE table[k]]

\* learn_association rewriting the table with the one row it was given
learn_association_replacing(table, context_key, skill_id, confidence, now) ==
    [k \in {context_key} |->
        [skill_id |-> skill_id, confidence |-> confidence,
         hit_count |-> IF k \in DOMAIN table THEN table[k].hit_count + 1
                       ELSE 1,
         created_at |-> now, updated_at |-> now]]

\* learn_association accumulating the confidences without dividing by the
\* new hit_count
learn_association_summing(table, context_key, skill_id, confidence, now) ==
    IF context_key \in DOMAIN table
    THEN LET old == table[context_key] IN
         [k \in DOMAIN table |->
            IF k = context_key
            THEN [skill_id |-> skill_id,
                  confidence |->
                      RatAdd(RatMulInt(old.confidence, old.hit_count),
                             confidence),
                  hit_count |-> old.hit_count + 1,
                  created_at |-> old.created_at,
                  updated_at |-> now]
            ELSE table[k]]
    ELSE [k \in DOMAIN table \cup {context_key} |->
            IF k = context_key
            THEN [skill_id |-> skill_id, confidence |-> confidence,
                  hit_count |-> 1, created_at |-> now, updated_at |-> now]
            ELSE table[k]]

\* FeedbackStore.learn_association: INSERT ... ON CONFLICT(context_key)
\* DO UPDATE; the SET expressions read the row as it was before the update
learn_association(table, context_key, skill_id, confidence, now) ==
    IF context_key \in DOMAIN table
    THEN LET old == table[context_key] IN
         [k \in DOMAIN table |->
            IF k = context_key
            THEN [skill_id |-> skill_id,
                  confidence |->
                      RatDivInt(RatAdd(RatMulInt(old.confidence, old.hit_count),
                                       confidence),
                                old.hit_count + 1),
                  hit_count |-> old.hit_count + 1,
                  created_at |-> old.created_at,
                  updated_at |-> now]
            ELSE table[k]]
    ELSE [k \in DOMAIN table \cup {context_key} |->
            IF k = context_key
            THEN [skill_id |-> skill_id, confidence |-> confidence,
                  hit_count |-> 1, created_at |-> now, updated_at |-> now]
            ELSE table[k]]

\* FeedbackStore.get_learned_association
get_learned_association(table, context_key) ==
    IF context_key \in DOMAIN table THEN table[context_key].skill_id ELSE NULL

EmptyTable == [k \in {} |-> NULL]

\* the learn_association calls seen by a key since the table was last emptied
Observe(obs, context_key, skill_id, confidence) ==
    LET old == IF context_key \in DOMAIN obs THEN obs[context_key]
               ELSE [n |-> 0, sum |-> Rat(0, 1), last |-> NULL]
    IN [k \in DOMAIN obs \cup {context_key} |->
          IF k = context_key
          THEN [n |-> old.n + 1, sum |-> RatAdd(old.sum, confidence),
                last |-> skill_id]
          ELSE obs[k]]

(* -------------------------- detector ---------------------------------- *)

\* dict.get(key, default)
DictGet(d, key, default) == IF key \in DOMAIN d.v THEN d.v[key] ELSE default

\* truth value of a Python object
Truthy(x) ==
    CASE x.t = "none" -> FALSE
      [] x.t = "str" -> x.v # <<>>
      [] x.t = "int" -> x.v # 0
      [] x.t = "list" -> x.v # <<>>
      [] x.t = "dict" -> DOMAIN x.v # {}

\* str.split("/")
RECURSIVE SplitSlash(_, _)
SplitSlash(s, cur) ==
    IF s = <<>> THEN <<cur>>
    ELSE IF Head(s) = "/" THEN <<cur>> \o SplitSlash(Tail(s), <<>>)
         ELSE SplitSlash(Tail(s), Append(cur, Head(s)))

\* pathlib: empty and "." components are dropped
RECURSIVE DropEmpty(_)
DropEmpty(segs) ==
    IF segs = <<>> THEN <<>>
    ELSE IF Head(segs) \in {<<>>, <<".">>} THEN DropEmpty(Tail(segs))
         ELSE <<Head(segs)>> \o DropEmpty(Tail(segs))

\* PurePosixPath(path).parts
PathParts(path) ==
    (IF path # <<>> /\ Head(path) = "/" THEN <<(<<"/">>)>> ELSE <<>>)
        \o DropEmpty(SplitSlash(path, <<>>))

\* str.rfind(".") counted from 0, -1 when absent
RECURSIVE RFindDot(_)
RFindDot(s) ==
    IF s = <<>> THEN -1
    ELSE IF s[Len(s)] = "." THEN Len(s) - 1
         ELSE RFindDot(SubSeq(s, 1, Len(s) - 1))

\* PurePosixPath(path).suffix
PathSuffix(path) ==
    LET segs == DropEmpty(SplitSlash(path, <<>>))
        name == IF segs = <<>> THEN <<>> ELSE segs[Len(segs)]
        i == RFindDot(name)
    IN IF 0 < i /\ i < Len(name) - 1 THEN Drop(name, i) ELSE <<>>

SkillMd == <<"S", "K", "I", "L", "L", ".", "m", "d">>
SkillsDir == <<"s", "k", "i", "l", "l", "s">>

\* 1-based position of the first "skills" component, 0 when absent
FirstSkills(parts) ==
    IF \E i \in 1..Len(parts) : parts[i] = SkillsDir
    THEN CHOOSE i \in 1..Len(parts) :
            /\ parts[i] = SkillsDir
            /\ \A j \in 1..(i - 1) : parts[j] # SkillsDir
    ELSE 0

\* transcript lines: text json.loads rejects, or the value it returns
Blank == [valid |-> FALSE, text |-> "blank"]
Garbage == [valid |-> FALSE, text |-> "garbage"]
JsonLine(v) == [valid |-> TRUE, v |-> v]

\* body of the for loop of _detect_from_transcript for one line:
\* "skip" (JSONDecodeError), "pass" (nothing appended), "read" (id appended)
\* or "error" (an exception the inner except does not catch)
ScanLine(line) ==
    IF ~line.valid THEN [r |-> "skip"]
    ELSE LET entry == line.v IN
      IF entry.t # "dict" THEN [r |-> "error"]
      ELSE IF DictGet(entry, "tool_name", None) # Str(<<"R", "e", "a", "d">>)
      THEN [r |-> "pass"]
      ELSE LET ti == DictGet(entry, "tool_input", Dict(<<>>)) IN
        IF ti.t # "dict" THEN [r |-> "error"]
        ELSE LET path == DictGet(ti, "file_path", Str(<<>>)) IN
          \* `"SKILL.md" in path`: TypeError for None and numbers, element
          \* or key membership for a list or dict, and then Path(path) fails
          IF path.t \in {"none", "int"} THEN [r |-> "error"]
          ELSE IF path.t = "list"
          THEN IF \E j \in 1..Len(path.v) : path.v[j] = Str(SkillMd)
               THEN [r |-> "error"] ELSE [r |-> "pass"]
          ELSE IF path.t = "dict"
          THEN IF "SKILL.md" \in DOMAIN path.v
               THEN [r |-> "error"] ELSE [r |-> "pass"]
          ELSE IF ~Contains(path.v, SkillMd) THEN [r |-> "pass"]
          ELSE LET parts == PathParts(path.v)
                   i == FirstSkills(parts)
               IN IF i > 0 /\ i < Len(parts) - 1
                  THEN [r |-> "read", id |-> Str(parts[i + 1])]
                  ELSE [r |-> "pass"]

\* skill_reads after the loop, or "error" when the loop was left by an
\* exception
RECURSIVE ScanLines(_, _)
ScanLines(lines, skill_reads) ==
    IF lines = <<>> THEN [r |-> "ok", skill_reads |-> skill_reads]
    ELSE LET one == ScanLine(Head(lines)) IN
         IF one.r = "error" THEN [r |-> "error"]
         ELSE ScanLines(Tail(lines),
                        IF one.r = "read" THEN Append(skill_reads, one.id)
                        ELSE skill_reads)

\* SkillDetector._detect_from_transcript; a transcript is
\* [file |-> "missing" | "unreadable" | "text", lines |-> ...]
DetectFromTranscript(transcript) ==
    IF transcript.file # "text" THEN None
    ELSE LET scan == ScanLines(transcript.lines, <<>>) IN
         IF scan.r = "error" THEN None
         ELSE IF scan.skill_reads # <<>>
              THEN scan.skill_reads[Len(scan.skill_reads)]
              ELSE None

\* SkillDetector._make_context_key; the key "tool|ext|command" is the
\* triple of its parts
MakeContextKey(tool_name, tool_input) ==
    LET file_path == DictGet(tool_input, "file_path", Str(<<>>))
        command == DictGet(tool_input, "command", Str(<<>>))
    IN IF Truthy(file_path) /\ file_path.t # "str"
       THEN [raised |-> TRUE]
       \* command[:50]: only str and list can be sliced
       ELSE IF command.t \notin {"str", "list"}
       THEN [raised |-> TRUE]
       ELSE [raised |-> FALSE,
             key |-> <<tool_name,
                       IF Truthy(file_path) THEN PathSuffix(file_path.v)
                       ELSE <<>>,
                       Take(command.v, 50)>>]

\* the threshold test written with >=
ScoreAcceptedInclusive(score) == score >= 50

\* score > 0.5, scores in hundredths
ScoreAccepted(score) == score > 50

\* SkillDetector._detect_via_colbert; run is the outcome of subprocess.run:
\* [k |-> "FileNotFoundError" | "TimeoutExpired"], [k |-> "exit", code |-> n,
\* parsed |-> BOOLEAN, results |-> the JSON value on stdout]
DetectViaColbert(run) ==
    IF run.k # "exit" THEN None
    ELSE IF run.code # 0 THEN None
    ELSE IF ~run.parsed THEN None
    ELSE LET results == run.results IN
      IF ~Truthy(results) THEN None
      \* len(results) and results[0] need a list, .get needs a dict
      ELSE IF results.t # "list" THEN None
      ELSE LET top == results.v[1] IN
        IF top.t # "dict" THEN None
        ELSE LET score == DictGet(top, "score", Num(0)) IN
          IF score.t # "int" THEN None
          ELSE IF ScoreAccepted(score.v)
               THEN LET sid == DictGet(top, "skill_id", None) IN
                    IF Truthy(sid) THEN sid ELSE DictGet(top, "name", None)
               ELSE None

Unknown == <<"u", "n", "k", "n", "o", "w", "n">>
SkillPrefix == <<"s", "k", "i", "l", "l", ":">>

\* the length test written with <=
LooksLikeSkillIdUpTo50(token) ==
    /\ Len(token) <= 50
    /\ \A i \in 1..Len(token) : IsAlnum(token[i]) \/ token[i] = "-"

\* reasonable length, alphanumeric + dash
LooksLikeSkillId(token) ==
    /\ Len(token) < 50
    /\ \A i \in 1..Len(token) : IsAlnum(token[i]) \/ token[i] = "-"

\* SkillDetector._parse_skill_from_response
ParseSkillFromResponse(text) ==
    LET r1 == Lower(Strip(text)) IN
    IF r1 = Unknown \/ r1 = <<>> THEN None
    ELSE LET r2 == RemoveChar(RemoveChar(r1, "\""), "'")
             r3 == IF StartsWith(r2, SkillPrefix) THEN Strip(Drop(r2, 6))
                   ELSE r2
         IN IF LooksLikeSkillId(r3)
            THEN Str(r3)
            ELSE None

\* SkillDetector._detect_via_llm; llm.command is what _get_llm_command
\* finds, llm.run the outcome of subprocess.run
DetectViaLlm(llm) ==
    IF ~llm.command THEN None
    ELSE IF llm.run.k # "exit" THEN None
    ELSE IF llm.run.code # 0 THEN None
    ELSE ParseSkillFromResponse(Strip(llm.run.stdout))

Conf08 == Rat(8, 10)
Conf06 == Rat(6, 10)

\* what detect hands back: the outcome, the strategies called in call order
\* (each with what it returned) and the table it leaves
Outcome(raised, result, trace, key, learned, table) ==
    [raised |-> raised, result |-> result, trace |-> trace, key |-> key,
     learned |-> learned, table |-> table]

\* strategy 4 not looking at use_llm
detect_llm_always(table, now, context_key, trace, use_llm, llm) ==
    LET skill == DetectViaLlm(llm)
        t4 == Append(trace, [s |-> "llm", r |-> skill])
    IN IF Truthy(skill)
       THEN Outcome(FALSE, skill, t4, context_key, Conf06,
                    learn_association(table, context_key, skill, Conf06, now))
       ELSE Outcome(FALSE, None, t4, context_key, None, table)

\* detect, strategy 4: LLM inference
detect_llm(table, now, context_key, trace, use_llm, llm) ==
    LET skill == DetectViaLlm(llm)
        t4 == IF use_llm THEN Append(trace, [s |-> "llm", r |-> skill])
              ELSE trace
    IN IF use_llm /\ Truthy(skill)
       THEN Outcome(FALSE, skill, t4, context_key, Conf06,
                    learn_association(table, context_key, skill, Conf06, now))
       ELSE Outcome(FALSE, None, t4, context_key, None, table)

\* detect, strategy 3: the find-skill index
detect_colbert(table, now, context_key, trace, colbert, use_llm, llm) ==
    LET skill == DetectViaColbert(colbert.run)
        t3 == IF colbert.available
              THEN Append(trace, [s |-> "colbert", r |-> skill])
              ELSE trace
    IN IF colbert.available /\ Truthy(skill)
       THEN Outcome(FALSE, skill, t3, context_key, Conf08,
                    learn_association(table, context_key, skill, Conf08, now))
       ELSE detect_llm(table, now, context_key, t3, use_llm, llm)

\* detect reinforcing the association it returns
ReturnLearnedReinforced(table, now, context_key, learned_skill, trace) ==
    Outcome(FALSE, learned_skill, trace, context_key, None,
            learn_association(table, context_key, learned_skill, Rat(1, 1),
                              now))

\* detect returning the learned skill it looked up
ReturnLearned(table, now, context_key, learned_skill, trace) ==
    Outcome(FALSE, learned_skill, trace, context_key, None, table)

\* detect, strategy 2: learned associations
detect_learned(table, now, tool_name, tool_input, trace, colbert, use_llm, llm) ==
    LET mk == MakeContextKey(tool_name, tool_input) IN
    IF mk.raised THEN Outcome(TRUE, None, trace, None, None, table)
    ELSE LET learned_skill == get_learned_association(table, mk.key)
             t2 == Append(trace, [s |-> "learned", r |-> learned_skill])
         IN IF Truthy(learned_skill)
            THEN ReturnLearned(table, now, mk.key, learned_skill, t2)
            ELSE detect_colbert(table, now, mk.key, t2, colbert, use_llm, llm)

\* detect consulting the learned associations before the transcript
detect_learned_first(table, now, tool_name, tool_input, transcript, colbert, use_llm, llm) ==
    LET mk == MakeContextKey(tool_name, tool_input)
        learned_skill == IF mk.raised THEN None
                         ELSE get_learned_association(table, mk.key)
        skill == DetectFromTranscript(transcript.content)
        t1 == IF transcript.given
              THEN <<[s |-> "transcript", r |-> skill]>> ELSE <<>>
    IN IF Truthy(learned_skill)
       THEN ReturnLearned(table, now, mk.key, learned_skill,
                          <<[s |-> "learned", r |-> learned_skill]>>)
       ELSE IF transcript.given /\ Truthy(skill)
       THEN Outcome(FALSE, skill, t1, None, None, table)
       ELSE detect_learned(table, now, tool_name, tool_input, t1, colbert,
                           use_llm, llm)

\* SkillDetector.detect, from strategy 1: the transcript
detect(table, now, tool_name, tool_input, transcript, colbert, use_llm, llm) ==
    LET skill == DetectFromTranscript(transcript.content)
        t1 == IF transcript.given
              THEN <<[s |-> "transcript", r |-> skill]>> ELSE <<>>
    IN IF transcript.given /\ Truthy(skill)
       THEN Outcome(FALSE, skill, t1, None, None, table)
       ELSE detect_learned(table, now, tool_name, tool_input, t1, colbert,
                           use_llm, llm)

(* ------------------------- execution log ------------------------------- *)

\* JSON text is a sequence of tokens: punctuation, the characters of a
\* string or number, and object keys
DigitTokens == <<"0", "1", "2", "3", "4", "5", "6", "7", "8", "9">>

RECURSIVE IntText(_)
IntText(n) ==
    IF n < 10 THEN <<DigitTokens[n + 1]>>
    ELSE IntText(n \div 10) \o <<DigitTokens[(n % 10) + 1]>>

\* json.dumps of a value of the tagged kinds (separators ", " and ": ")
RECURSIVE JsonDumps(_), JsonItems(_, _), JsonMembers(_, _)
JsonDumps(x) ==
    CASE x.t = "none" -> <<"null">>
      [] x.t = "int" -> IntText(x.v)
      [] x.t = "str" -> <<"\"">> \o x.v \o <<"\"">>
      [] x.t = "list" -> <<"[">> \o JsonItems(x.v, 1) \o <<"]">>
      [] x.t = "dict" -> <<"{">> \o JsonMembers(x.v, DOMAIN x.v) \o <<"}">>

JsonItems(l, i) ==
    IF i > Len(l) THEN <<>>
    ELSE JsonDumps(l[i])
         \o (IF i < Len(l) THEN <<",", " ">> ELSE <<>>)
         \o JsonItems(l, i + 1)

JsonMembers(f, keys) ==
    IF keys = {} THEN <<>>
    ELSE LET k == CHOOSE key \in keys : TRUE IN
         <<"\"", k, "\"", ":", " ">> \o JsonDumps(f[k])
         \o (IF keys \ {k} # {} THEN <<",", " ">> ELSE <<>>)
         \o JsonMembers(f, keys \ {k})

\* values of ToolExecution.tool_input and ToolExecution.tool_response
ToolInputs == {Dict(<<>>), Dict("file_path" :> Str(Docx))}
ToolResponses ==
    {None, Dict(<<>>), Dict("error" :> Str(<<"e">>)),
     Dict("output" :> List(<<Num(10), None>>))}
JsonValues == ToolInputs \cup ToolResponses

\* json.loads: the value whose JSON text this is
JsonLoads(text) == CHOOSE x \in JsonValues : JsonDumps(x) = text

\* a ToolExecution
Execution(sid, tool, input, response, ok, err, dur, skill, ts) ==
    [session_id |-> sid, tool_name |-> tool, tool_input |-> input,
     tool_response |-> response, success |-> ok, error_message |-> err,
     duration_ms |-> dur, skill_used |-> skill, timestamp |-> ts]

\* the tool_response column of log_tool_execution:
\* json.dumps(execution.tool_response) if execution.tool_response else None
ResponseColumn(response) ==
    IF Truthy(response) THEN Str(JsonDumps(response)) ELSE NULL

\* log_tool_execution as INSERT OR REPLACE keyed by the session: the new
\* row takes the place of the session's earlier rows
log_tool_execution_replacing(rows, row_id, execution) ==
    Append(SelectSeq(rows,
                     LAMBDA r : r.session_id # execution.session_id),
        [id |-> row_id,
         session_id |-> execution.session_id,
         tool_name |-> execution.tool_name,
         tool_input |-> Str(JsonDumps(execution.tool_input)),
         tool_response |-> ResponseColumn(execution.tool_response),
         success |-> IF execution.success THEN 1 ELSE 0,
         error_message |-> execution.error_message,
         duration_ms |-> execution.duration_ms,
         skill_used |-> execution.skill_used,
         timestamp |-> execution.timestamp])

\* FeedbackStore.log_tool_execution: the table after the INSERT of the row
\* that AUTOINCREMENT numbers row_id; BOOLEAN is stored as 1 or 0
log_tool_execution(rows, row_id, execution) ==
    Append(rows,
        [id |-> row_id,
         session_id |-> execution.session_id,
         tool_name |-> execution.tool_name,
         tool_input |-> Str(JsonDumps(execution.tool_input)),
         tool_response |-> ResponseColumn(execution.tool_response),
         success |-> IF execution.success THEN 1 ELSE 0,
         error_message |-> execution.error_message,
         duration_ms |-> execution.duration_ms,
         skill_used |-> execution.skill_used,
         timestamp |-> execution.timestamp])

\* ORDER BY timestamp (insertion sort, rows of equal timestamp in rowid
\* order)
RECURSIVE InsertByTimestamp(_, _)
InsertByTimestamp(sorted, r) ==
    IF sorted = <<>> THEN <<r>>
    ELSE IF sorted[Len(sorted)].timestamp <= r.timestamp
    THEN Append(sorted, r)
    ELSE Append(InsertByTimestamp(SubSeq(sorted, 1, Len(sorted) - 1), r),
                sorted[Len(sorted)])

RECURSIVE OrderByTimestamp(_)
OrderByTimestamp(rows) ==
    IF rows = <<>> THEN <<>>
    ELSE InsertByTimestamp(
             OrderByTimestamp(SubSeq(rows, 1, Len(rows) - 1)),
             rows[Len(rows)])

\* the ToolExecution get_session_executions builds from a row
RowToExecution(r) ==
    Execution(r.session_id, r.tool_name,
              IF Truthy(r.tool_input) THEN JsonLoads(r.tool_input.v)
              ELSE Dict(<<>>),
              IF Truthy(r.tool_response) THEN JsonLoads(r.tool_response.v)
              ELSE None,
              r.success # 0, r.error_message, r.duration_ms, r.skill_used,
              r.timestamp)

\* FeedbackStore.get_session_executions
get_session_executions(rows, session_id) ==
    LET selected ==
            OrderByTimestamp(
                SelectSeq(rows, LAMBDA r : r.session_id = session_id))
    IN [i \in 1..Len(selected) |-> RowToExecution(selected[i])]

\* number of elements of a sequence that satisfy P
Count(seq, P(_)) == Len(SelectSeq(seq, P))

\* the stats entry whose success_rate is the share of failures
StatsEntryFailureRate(total, successful) ==
    [total |-> total, successful |-> successful,
     failed |-> total - successful,
     success_rate |-> IF total > 0 THEN Rat(total - successful, total)
                      ELSE Rat(0, 1)]

\* the stats entry get_skill_stats and get_tool_usage_stats build from the
\* COUNT(*) and the SUM(CASE WHEN success ...) of a group
StatsEntry(total, successful) ==
    [total |-> total, successful |-> successful,
     failed |-> total - successful,
     success_rate |-> IF total > 0 THEN Rat(successful, total)
                      ELSE Rat(0, 1)]

\* FeedbackStore.get_skill_stats: WHERE skill_used = ? for a truthy
\* skill_id, WHERE skill_used IS NOT NULL otherwise; GROUP BY skill_used
get_skill_stats(rows, skill_id) ==
    LET matching ==
            SelectSeq(rows,
                LAMBDA r : IF Truthy(skill_id) THEN r.skill_used = skill_id
                           ELSE r.skill_used # NULL)
        groups == {matching[i].skill_used : i \in DOMAIN matching}
    IN [g \in groups |->
          StatsEntry(
              Count(matching, LAMBDA r : r.skill_used = g),
              Count(matching, LAMBDA r : r.skill_used = g /\ r.success # 0))]

\* FeedbackStore.get_tool_usage_stats: GROUP BY tool_name
get_tool_usage_stats(rows) ==
    LET groups == {rows[i].tool_name : i \in DOMAIN rows}
    IN [g \in groups |->
          StatsEntry(
              Count(rows, LAMBDA r : r.tool_name = g),
              Count(rows, LAMBDA r : r.tool_name = g /\ r.success # 0))]

\* ORDER BY count DESC over the groups of an aggregate query; groups of
\* equal count come in an order the engine chooses
RECURSIVE OrderByCountDesc(_, _)
OrderByCountDesc(groups, count) ==
    IF groups = {} THEN <<>>
    ELSE LET top == CHOOSE g \in groups :
                        \A h \in groups : count[h] <= count[g]
         IN <<top>> \o OrderByCountDesc(groups \ {top}, count)

\* LIMIT ?: a negative limit is no limit
Limit(seq, limit) == IF limit < 0 THEN seq ELSE Take(seq, limit)

\* FeedbackStore.get_common_errors. tool_name is a bare column of the
\* aggregate query: the engine reports it from one row of the group, so the
\* entry carries the tools of the group. Without a truthy skill_id every
\* fetched row is asked r.get("skill_used"), which sqlite3.Row does not
\* have: AttributeError
get_common_errors(rows, skill_id, limit) ==
    LET matching ==
            SelectSeq(rows,
                LAMBDA r : /\ Truthy(skill_id) => r.skill_used = skill_id
                           /\ r.success = 0
                           /\ r.error_message # NULL)
        groups == {matching[i].error_message : i \in DOMAIN matching}
        count == [g \in groups |->
                     Count(matching, LAMBDA r : r.error_message = g)]
        fetched == Limit(OrderByCountDesc(groups, count), limit)
    IN IF ~Truthy(skill_id) /\ fetched # <<>>
       THEN [raised |-> TRUE]
       ELSE [raised |-> FALSE,
             result |->
                 [i \in 1..Len(fetched) |->
                     [error |-> fetched[i],
                      count |-> count[fetched[i]],
                      tool |-> {matching[j].tool_name :
                                   j \in {n \in DOMAIN matching :
                                            matching[n].error_message
                                                = fetched[i]}},
                      skill |-> skill_id]]]

Idle == [op |-> "none"]

\* no process is inside a store operation
NoProcs == [lock |-> 0, of |-> <<>>]

Init ==
    /\ learned_associations = EmptyTable
    /\ tool_executions = <<>>
    /\ session_summaries = EmptyTable
    /\ sqlite_sequence = 0
    /\ clock = 0
    /\ observed = EmptyTable
    /\ procs = NoProcs
    /\ call = Idle

\* a direct call of FeedbackStore.learn_association
LearnAssociation ==
    /\ clock < MaxOps
    /\ \E k \in StoreKeys, s \in SkillIds, c \in Confidences :
         /\ learned_associations' =
                learn_association(learned_associations, k, s, c, clock + 1)
         /\ observed' = Observe(observed, k, s, c)
         /\ call' = [op |-> "learn_association", key |-> k]
    /\ clock' = clock + 1
    /\ UNCHANGED <<procs, tool_executions, session_summaries, sqlite_sequence>>

Sessions == {"s1"}

\* the executions logged between the other store operations
FewExecutions(now) ==
    {Execution("s1", "Write", Dict(<<>>), None, ok,
               IF ok THEN NULL ELSE Str(<<"e">>), NULL, skill, now) :
        ok \in BOOLEAN, skill \in {NULL, Str(Docx)}}

\* a call of FeedbackStore.log_tool_execution with one of `executions`
LogCall(executions) ==
    /\ \E e \in executions :
         /\ tool_executions' =
                log_tool_execution(tool_executions, sqlite_sequence + 1, e)
         /\ call' = [op |-> "log_tool_execution", id |-> sqlite_sequence + 1,
                     execution |-> e]
    /\ sqlite_sequence' = sqlite_sequence + 1
    /\ clock' = clock + 1
    /\ UNCHANGED <<procs, learned_associations, session_summaries, observed>>

LogToolExecution ==
    /\ clock < MaxOps
    /\ LogCall(FewExecutions(clock + 1))

\* FeedbackStore.log_session_summary: INSERT OR REPLACE keyed by session_id
LogSessionSummary ==
    /\ clock < MaxOps
    /\ \E sid \in Sessions, done \in BOOLEAN :
         /\ session_summaries' =
                [s \in DOMAIN session_summaries \cup {sid} |->
                    IF s = sid
                    THEN [task_completed |-> done, timestamp |-> clock + 1]
                    ELSE session_summaries[s]]
         /\ call' = [op |-> "log_session_summary", session_id |-> sid]
    /\ clock' = clock + 1
    /\ UNCHANGED <<procs, learned_associations, tool_executions, sqlite_sequence,
                   observed>>

\* FeedbackStore.reset: DELETE FROM each table (sqlite_sequence is kept)
Reset ==
    /\ clock < MaxOps
    /\ learned_associations' = EmptyTable
    /\ tool_executions' = <<>>
    /\ session_summaries' = EmptyTable
    /\ observed' = EmptyTable
    /\ call' = [op |-> "reset"]
    /\ clock' = clock + 1
    /\ UNCHANGED <<procs, sqlite_sequence>>

(* ----------------------- inputs of detect ------------------------------ *)

Chars(n, c) == [i \in 1..n |-> c]

NotesDocx == <<"n", "o", "t", "e", "s", ".", "d", "o", "c", "x">>
Git == <<"g", "i", "t">>

\* (tool_name, tool_input) pairs
WriteDocx == [tool_name |-> "Write",
              tool_input |-> Dict("file_path" :> Str(NotesDocx))]
BashGit == [tool_name |-> "Bash", tool_input |-> Dict("command" :> Str(Git))]
WriteNoPath == [tool_name |-> "Write", tool_input |-> Dict(<<>>)]
WriteNullPath == [tool_name |-> "Write",
                  tool_input |-> Dict("file_path" :> None)]
WriteIntPath == [tool_name |-> "Write",
                 tool_input |-> Dict("file_path" :> Num(123))]
BashNullCommand == [tool_name |-> "Bash",
                    tool_input |-> Dict("command" :> None)]
BashIntCommand == [tool_name |-> "Bash",
                   tool_input |-> Dict("command" :> Num(7))]
BashLongCommand == [tool_name |-> "Bash",
                    tool_input |-> Dict("command" :> Str(Chars(51, "a")))]

AllTools == {WriteDocx, BashGit, WriteNoPath, WriteNullPath, WriteIntPath,
             BashNullCommand, BashIntCommand, BashLongCommand}
FewTools == {WriteDocx, BashGit, WriteIntPath}

ReadTool == Str(<<"R", "e", "a", "d">>)
WriteTool == Str(<<"W", "r", "i", "t", "e">>)

\* a transcript record {"tool_name": tool, "tool_input": {"file_path": path}}
Record(tool, path) ==
    JsonLine(Dict("tool_name" :> tool
                  @@ "tool_input" :> Dict("file_path" :> path)))

\* /mnt/skills/docx/SKILL.md
DocxSkillPath ==
    <<"/", "m", "n", "t", "/">> \o SkillsDir \o <<"/">> \o Docx
        \o <<"/">> \o SkillMd
\* skills/pdf/SKILL.md
PdfSkillPath == SkillsDir \o <<"/">> \o Pdf \o <<"/">> \o SkillMd
\* skills/SKILL.md
BareSkillPath == SkillsDir \o <<"/">> \o SkillMd
\* /mnt/docx/SKILL.md
NoSkillsPath == <<"/", "m", "n", "t", "/">> \o Docx \o <<"/">> \o SkillMd

ReadDocx == Record(ReadTool, Str(DocxSkillPath))
ReadPdf == Record(ReadTool, Str(PdfSkillPath))
ReadBare == Record(ReadTool, Str(BareSkillPath))
ReadNoSkills == Record(ReadTool, Str(NoSkillsPath))
ReadOther == Record(ReadTool, Str(NotesDocx))
WriteSkill == Record(WriteTool, Str(DocxSkillPath))
\* lines that json.loads accepts but are not such records
JsonArray == JsonLine(List(<<Num(1)>>))
JsonNumber == JsonLine(Num(42))
ReadNullPath == Record(ReadTool, None)
ReadTextInput ==
    JsonLine(Dict("tool_name" :> ReadTool @@ "tool_input" :> Str(Git)))

NoTranscript == [given |-> FALSE, content |-> [file |-> "missing"]]
Text(lines) == [given |-> TRUE, content |-> [file |-> "text", lines |-> lines]]

AllTranscripts ==
    {NoTranscript,
     [given |-> TRUE, content |-> [file |-> "missing"]],
     [given |-> TRUE, content |-> [file |-> "unreadable"]],
     Text(<<>>), Text(<<ReadDocx>>), Text(<<ReadPdf, Garbage>>),
     Text(<<ReadDocx, ReadPdf>>), Text(<<ReadDocx, JsonArray>>),
     Text(<<WriteSkill, ReadOther, Blank>>)}
FewTranscripts == {NoTranscript, Text(<<ReadDocx>>)}

Failed(kind) == [k |-> kind]
Exit(code) == [k |-> "exit", code |-> code, parsed |-> FALSE, stdout |-> <<>>]
Printed(results) ==
    [k |-> "exit", code |-> 0, parsed |-> TRUE, results |-> results]
Said(text) == [k |-> "exit", code |-> 0, stdout |-> text]

\* one result of find-skill --json
Top(score, skill_id, name) ==
    List(<<Dict("score" :> score @@ "skill_id" :> skill_id @@ "name" :> name)>>)

ColbertMissing == [available |-> FALSE, run |-> Failed("FileNotFoundError")]
Colbert(run) == [available |-> TRUE, run |-> run]

AllColberts ==
    {ColbertMissing, Colbert(Failed("FileNotFoundError")),
     Colbert(Failed("TimeoutExpired")), Colbert(Exit(1)), Colbert(Exit(0)),
     Colbert(Printed(List(<<>>))),
     Colbert(Printed(Dict("results" :> List(<<>>)))),
     Colbert(Printed(Top(Num(0), Str(Docx), Str(Docx)))),
     Colbert(Printed(Top(Num(50), Str(Docx), Str(Docx)))),
     Colbert(Printed(Top(Num(51), Str(Docx), Str(Docx)))),
     Colbert(Printed(Top(Num(90), Str(<<>>), Str(Pdf)))),
     Colbert(Printed(Top(Num(90), None, None))),
     Colbert(Printed(Top(None, Str(Docx), Str(Docx)))),
     Colbert(Printed(List(<<Dict("skill_id" :> Str(Docx))>>)))}
FewColberts == {ColbertMissing, Colbert(Printed(Top(Num(90), Str(Docx), Str(Docx))))}

Quoted(text) == <<"\"">> \o text \o <<"\"">>

Responses ==
    {<<>>, Unknown, <<" ", "U", "n", "k", "n", "o", "w", "n", "\n">>,
     Docx, <<"D", "O", "C", "X", "\n">>, Quoted(Pdf), Quoted(Unknown),
     SkillPrefix \o <<" ">> \o Docx, Quoted(<<>>),
     <<"a", "-", "b">>, <<"a", " ", "b">>, <<"a", "_", "b">>,
     Chars(49, "a"), Chars(50, "a")}

LlmOff == [use_llm |-> FALSE, command |-> FALSE, run |-> Failed("none")]
Llm(command, run) == [use_llm |-> TRUE, command |-> command, run |-> run]

AllLlms ==
    {LlmOff, [use_llm |-> FALSE, command |-> TRUE, run |-> Said(Docx)],
     Llm(FALSE, Failed("none")), Llm(TRUE, Failed("TimeoutExpired")),
     Llm(TRUE, [k |-> "exit", code |-> 1, stdout |-> Docx])}
        \cup {Llm(TRUE, Said(r)) : r \in Responses}
FewLlms == {LlmOff, Llm(TRUE, Said(Pdf))}

\* one call of SkillDetector.detect by a fresh detector
DetectCall(tools, transcripts, colberts, llms) ==
    \E tool \in tools, transcript \in transcripts, colbert \in colberts,
       llm \in llms :
      \E d \in {detect(learned_associations, clock + 1, tool.tool_name,
                      tool.tool_input, transcript, colbert, llm.use_llm, llm)} :
         /\ learned_associations' = d.table
         /\ observed' = IF d.learned # None
                        THEN Observe(observed, d.key, d.result, d.learned)
                        ELSE observed
         /\ call' = [op |-> "detect", tool |-> tool,
                     transcript |-> transcript, colbert |-> colbert,
                     llm |-> llm, raised |-> d.raised, result |-> d.result,
                     trace |-> d.trace, key |-> d.key,
                     learned |-> d.learned]
         /\ clock' = clock + 1
         /\ UNCHANGED <<procs, tool_executions, session_summaries, sqlite_sequence>>

\* detect among the other store operations
Detect ==
    /\ clock < MaxOps
    /\ DetectCall(FewTools, FewTranscripts, FewColberts, FewLlms)

Next ==
    \/ LearnAssociation
    \/ LogToolExecution
    \/ LogSessionSummary
    \/ Reset
    \/ Detect

Spec == Init /\ [][Next]_vars

(* ------------- one detect call over the whole input space -------------- *)

\* the store as constructed, or after one learn_association call
InitDetect ==
    /\ procs = NoProcs
    /\ tool_executions = <<>>
    /\ session_summaries = EmptyTable
    /\ sqlite_sequence = 0
    /\ call = Idle
    /\ \/ /\ learned_associations = EmptyTable
          /\ observed = EmptyTable
          /\ clock = 0
       \/ \E k \in StoreKeys, s \in SkillIds :
            /\ learned_associations =
                   learn_association(EmptyTable, k, s, Rat(1, 1), 1)
            /\ observed = Observe(EmptyTable, k, s, Rat(1, 1))
            /\ clock = 1

DetectOnce ==
    /\ call = Idle
    /\ DetectCall(AllTools, AllTranscripts, AllColberts, AllLlms)

NextDetect == DetectOnce

SpecDetect == InitDetect /\ [][NextDetect]_vars

(* ---------- one logged execution over the whole field space ------------ *)

\* every combination of field values of a ToolExecution
AllExecutions(now) ==
    {Execution(sid, "Write", input, response, ok, err, dur, skill, now) :
        sid \in {"s1", "s2"}, input \in ToolInputs,
        response \in ToolResponses, ok \in BOOLEAN,
        err \in {NULL, Str(<<>>), Str(<<"e">>)},
        dur \in {NULL, Num(0), Num(5)}, skill \in {NULL, Str(Docx)}}

\* the store as constructed, or holding one execution of session s1
InitRoundTrip ==
    /\ learned_associations = EmptyTable
    /\ session_summaries = EmptyTable
    /\ observed = EmptyTable
    /\ procs = NoProcs
    /\ call = Idle
    /\ \/ /\ tool_executions = <<>>
          /\ sqlite_sequence = 0
          /\ clock = 0
       \/ \E e \in FewExecutions(1) :
            /\ tool_executions = log_tool_execution(<<>>, 1, e)
            /\ sqlite_sequence = 1
            /\ clock = 1

LogOnce ==
    /\ call = Idle
    /\ LogCall(AllExecutions(clock + 1))

NextRoundTrip == LogOnce

SpecRoundTrip == InitRoundTrip /\ [][NextRoundTrip]_vars

(* ------------- the log under executions of every outcome --------------- *)

\* success, or failure with one of two messages or with none
Outcomes ==
    {[ok |-> TRUE, err |-> NULL], [ok |-> FALSE, err |-> Str(<<"e">>)],
     [ok |-> FALSE, err |-> Str(<<"f">>)], [ok |-> FALSE, err |-> NULL]}

StatsExecutions(now) ==
    {Execution("s1", tool, Dict(<<>>), None, o.ok, o.err, NULL, skill, now) :
        tool \in {"Write", "Bash"}, skill \in {NULL, Str(Docx), Str(Pdf)},
        o \in Outcomes}

LogAny ==
    /\ clock < MaxOps
    /\ LogCall(StatsExecutions(clock + 1))

NextLog ==
    \/ LogAny
    \/ Reset

SpecLog == Init /\ [][NextLog]_vars

(* ------------- store operations of concurrent processes --------------- *)

\* Each process runs one store operation: it opens its own connection and
\* executes its one statement, which starts a write transaction (Execute),
\* commits (Commit) and closes the connection and returns (Close). SQLite
\* admits one write transaction on the database file at a time; the busy
\* handler makes every other writer wait for the lock (the 5 s after which
\* the wait gives up are not modelled).

Procs == 1..MaxProcs

\* the operation a process was started for
ProcOps ==
    {[op |-> "learn_association", key |-> Key1, skill_id |-> Str(Docx),
      confidence |-> c] : c \in Confidences}
    \cup
    {[op |-> "log_tool_execution",
      execution |-> Execution("s1", "Write", Dict(<<>>), None, o.ok, o.err,
                              NULL, NULL, 0)] :
        o \in {[ok |-> TRUE, err |-> NULL],
               [ok |-> FALSE, err |-> Str(<<"e">>)]}}

InitConcurrent ==
    /\ learned_associations = EmptyTable
    /\ tool_executions = <<>>
    /\ session_summaries = EmptyTable
    /\ sqlite_sequence = 0
    /\ clock = 0
    /\ observed = EmptyTable
    /\ call = Idle
    /\ \E ops \in [Procs -> ProcOps] :
          procs = [lock |-> 0,
                   of |-> [p \in Procs |->
                              [pc |-> "execute", request |-> ops[p],
                               returned |-> None]]]

\* a database file without a write lock: a write transaction starts at
\* any time
WriteLockNeverHeld(lock) == TRUE

\* the write lock of the database file is free: no write transaction is
\* open
WriteLockFree(lock) == lock = 0

\* c.execute(...): the statement runs in a write transaction that holds the
\* database lock; what it wrote is in `staged` until the commit
Execute(p) ==
    /\ procs.of[p].pc = "execute"
    /\ WriteLockFree(procs.lock)
    /\ LET request == procs.of[p].request
           staged ==
               IF request.op = "learn_association"
               THEN [learned_associations |->
                         learn_association(learned_associations, request.key,
                             request.skill_id, request.confidence,
                             clock + 1),
                     tool_executions |-> tool_executions,
                     sqlite_sequence |-> sqlite_sequence,
                     returned |-> None]
               ELSE [learned_associations |-> learned_associations,
                     tool_executions |->
                         log_tool_execution(tool_executions,
                             sqlite_sequence + 1, request.execution),
                     sqlite_sequence |-> sqlite_sequence + 1,
                     returned |-> Num(sqlite_sequence + 1)]
       IN procs' = [lock |-> p,
                    of |-> [procs.of EXCEPT ![p] =
                               [pc |-> "commit", request |-> request,
                                returned |-> None, staged |-> staged]]]
    /\ clock' = clock + 1
    /\ UNCHANGED <<learned_associations, tool_executions, session_summaries,
                   sqlite_sequence, observed, call>>

\* conn.commit(): the transaction's writes reach the database file and the
\* lock is released
Commit(p) ==
    /\ procs.of[p].pc = "commit"
    /\ LET me == procs.of[p] IN
       /\ learned_associations' = me.staged.learned_associations
       /\ tool_executions' = me.staged.tool_executions
       /\ sqlite_sequence' = me.staged.sqlite_sequence
       /\ observed' =
              IF me.request.op = "learn_association"
              THEN Observe(observed, me.request.key, me.request.skill_id,
                           me.request.confidence)
              ELSE observed
       /\ procs' = [lock |-> IF procs.lock = p THEN 0 ELSE procs.lock,
                    of |-> [procs.of EXCEPT ![p] =
                               [pc |-> "close", request |-> me.request,
                                returned |-> me.staged.returned]]]
    /\ UNCHANGED <<session_summaries, clock, call>>

\* conn.close() and the return of the operation
Close(p) ==
    /\ procs.of[p].pc = "close"
    /\ procs' = [procs EXCEPT !.of[p].pc = "done"]
    /\ UNCHANGED <<learned_associations, tool_executions, session_summaries,
                   sqlite_sequence, clock, observed, call>>

NextConcurrent ==
    \/ \E p \in Procs : Execute(p)
    \/ \E p \in Procs : Commit(p)
    \/ \E p \in Procs : Close(p)

SpecConcurrent == InitConcurrent /\ [][NextConcurrent]_vars

(* --------------------- the post-tool-use hook -------------------------- *)

ErrorText == <<"e", "r", "r", "o", "r">>

\* success and error_message as post_tool_use reads them off tool_response
ResponseVerdict(tool_response) ==
    IF tool_response.t = "dict"
    THEN IF Truthy(DictGet(tool_response, "error", None))
         THEN [success |-> FALSE,
               error_message |->
                   Str(Take(DictGet(tool_response, "error", None).v, 500))]
         ELSE IF Truthy(DictGet(tool_response, "stderr", None))
                 /\ DictGet(tool_response, "exit_code", Num(0)) # Num(0)
         THEN [success |-> FALSE,
               error_message |->
                   Str(Take(DictGet(tool_response, "stderr", None).v, 500))]
         ELSE [success |-> TRUE, error_message |-> None]
    ELSE IF tool_response.t = "str"
            /\ Contains(Take(Lower(tool_response.v), 100), ErrorText)
    THEN [success |-> FALSE, error_message |-> Str(Take(tool_response.v, 500))]
    ELSE [success |-> TRUE, error_message |-> None]

\* how a run of the handler ends: the exit status, the store it leaves and
\* what detection did
HookEnd(exit, note, table, rows, seq, d) ==
    [exit |-> exit, note |-> note, table |-> table, rows |-> rows,
     seq |-> seq, key |-> d.key, result |-> d.result, learned |-> d.learned,
     trace |-> d.trace]

\* detection when the feedback store cannot be opened: only the transcript
\* strategy can yield before the store lookup raises
DetectWithoutStore(table, transcript) ==
    LET skill == DetectFromTranscript(transcript.content) IN
    IF transcript.given /\ Truthy(skill)
    THEN Outcome(FALSE, skill, <<>>, None, None, table)
    ELSE Outcome(TRUE, None, <<>>, None, None, table)

\* cli/hook.py post_tool_use. `run` is what the process finds: the
\* recursion guard, stdin, the transcript file, find-skill, the LLM command
\* and whether the feedback store works. An exception that leaves the
\* handler ends the process with exit status 1.
post_tool_use(table, rows, seq, now, run) ==
    LET nothing == Outcome(FALSE, None, <<>>, None, None, table) IN
    IF run.internal THEN HookEnd(0, "internal", table, rows, seq, nothing)
    ELSE IF run.stdin.kind # "json"
    THEN HookEnd(0, "JSONDecodeError", table, rows, seq, nothing)
    ELSE IF run.stdin.v.t # "dict"
    THEN HookEnd(1, "AttributeError", table, rows, seq, nothing)
    ELSE
      LET hook_input == run.stdin.v
          session_id == DictGet(hook_input, "session_id", "unknown")
          tool_name == DictGet(hook_input, "tool_name", "")
          tool_input == DictGet(hook_input, "tool_input", Dict(<<>>))
          tool_response == DictGet(hook_input, "tool_response", Dict(<<>>))
          transcript ==
              IF Truthy(DictGet(hook_input, "transcript_path", None))
              THEN [given |-> TRUE, content |-> run.file]
              ELSE NoTranscript
      IN IF tool_name = ""
         THEN HookEnd(0, "no tool", table, rows, seq, nothing)
         ELSE
           LET verdict == ResponseVerdict(tool_response)
               d == IF run.store_ok
                    THEN detect(table, now, tool_name, tool_input,
                                transcript, run.colbert, TRUE, run.llm)
                    ELSE DetectWithoutStore(table, transcript)
               skill_used == IF d.raised THEN None ELSE d.result
               execution ==
                   Execution(session_id, tool_name, tool_input,
                       IF tool_response.t = "dict" THEN tool_response
                       ELSE Dict("output" :> tool_response),
                       verdict.success, verdict.error_message, None,
                       skill_used, now)
           IN IF run.store_ok
              THEN HookEnd(0, "logged", d.table,
                       log_tool_execution(rows, seq + 1, execution),
                       seq + 1, d)
              ELSE HookEnd(0, "Feedback logging error", table, rows, seq, d)

\* what stdin holds
HookObjects ==
    {Dict(<<>>), Dict("tool_name" :> ""),
     Dict("session_id" :> "s1" @@ "tool_input" :> WriteDocx.tool_input)}
    \cup
    {Dict("tool_name" :> tool.tool_name @@ "tool_input" :> tool.tool_input) :
        tool \in {WriteDocx, WriteIntPath}}
    \cup
    {Dict("session_id" :> "s1" @@ "tool_name" :> "Bash"
          @@ "tool_input" :> BashGit.tool_input
          @@ "tool_response" :> response
          @@ "transcript_path" :> path) :
        response \in {Dict("error" :> Str(<<"e">>)),
                      Dict("stderr" :> Str(<<"f">>) @@ "exit_code" :> Num(1)),
                      Dict("stderr" :> Str(<<"f">>)),
                      Str(<<"E", "r", "r", "o", "r">>),
                      Str(<<"o", "k">>)},
        path \in {None, Str(<<"t">>)}}

Stdins ==
    {[kind |-> "empty"], [kind |-> "garbage"]}
    \cup {[kind |-> "json", v |-> x] :
            x \in {List(<<Num(1)>>), Num(42), Str(Git), None} \cup HookObjects}

HookRuns ==
    [internal : BOOLEAN, stdin : Stdins,
     file : {[file |-> "missing"], Text(<<ReadPdf>>).content,
             Text(<<JsonNumber>>).content},
     colbert : FewColberts,
     llm : {Llm(FALSE, Failed("none")), Llm(TRUE, Said(Pdf))},
     store_ok : BOOLEAN]

\* the store as constructed, or after one learn_association call
InitHook ==
    /\ tool_executions = <<>>
    /\ session_summaries = EmptyTable
    /\ sqlite_sequence = 0
    /\ procs = NoProcs
    /\ \E run \in HookRuns :
          call = [op |-> "hook", run |-> run, done |-> FALSE]
    /\ \/ /\ learned_associations = EmptyTable
          /\ observed = EmptyTable
          /\ clock = 0
       \/ /\ learned_associations =
                 learn_association(EmptyTable, Key2, Str(Docx), Rat(1, 1), 1)
          /\ observed = Observe(EmptyTable, Key2, Str(Docx), Rat(1, 1))
          /\ clock = 1

\* one run of the handler
PostToolUse ==
    /\ call.op = "hook"
    /\ ~call.done
    /\ \E h \in {post_tool_use(learned_associations, tool_executions,
                               sqlite_sequence, clock + 1, call.run)} :
         /\ learned_associations' = h.table
         /\ tool_executions' = h.rows
         /\ sqlite_sequence' = h.seq
         /\ observed' = IF h.learned # None
                        THEN Observe(observed, h.key, h.result, h.learned)
                        ELSE observed
         /\ call' = [op |-> "hook", run |-> call.run, done |-> TRUE,
                     exit |-> h.exit, note |-> h.note, trace |-> h.trace]
    /\ clock' = clock + 1
    /\ UNCHANGED <<session_summaries, procs>>

NextHook == PostToolUse

SpecHook == InitHook /\ [][NextHook]_vars

(* ------------------------ repository snapshot -------------------------- *)

\* fnmatch.fnmatchcase for patterns of literal characters, * and ?
\* (* also matches "/"); bracket expressions are not modelled
RECURSIVE fnmatchcase(_, _)
fnmatchcase(name, pattern) ==
    IF pattern = <<>> THEN name = <<>>
    ELSE IF Head(pattern) = "*"
    THEN \/ fnmatchcase(name, Tail(pattern))
         \/ name # <<>> /\ fnmatchcase(Tail(name), pattern)
    ELSE IF Head(pattern) = "?"
    THEN name # <<>> /\ fnmatchcase(Tail(name), Tail(pattern))
    ELSE /\ name # <<>>
         /\ Head(name) = Head(pattern)
         /\ fnmatchcase(Tail(name), Tail(pattern))

\* one line of the ignore file as _Gitignore.from_root reads it: the rule,
\* or no rule for blank lines, comments and patterns that strip to nothing
ParseRule(raw_line) ==
    LET line == Strip(raw_line)
        negate == StartsWith(line, <<"!">>)
        l1 == IF negate THEN Strip(Tail(line)) ELSE line
        anchored == StartsWith(l1, <<"/">>)
        l2 == IF anchored THEN Tail(l1) ELSE l1
        dir_only == l2 # <<>> /\ l2[Len(l2)] = "/"
        l3 == IF dir_only THEN SubSeq(l2, 1, Len(l2) - 1) ELSE l2
    IN IF line = <<>> \/ StartsWith(line, <<"#">>) \/ l1 = <<>> \/ l3 = <<>>
       THEN [rule |-> FALSE]
       ELSE [rule |-> TRUE, pattern |-> l3, negate |-> negate,
             dir_only |-> dir_only, anchored |-> anchored]

\* _Gitignore.from_root: the rules of the root .gitignore in file order; a
\* file that is missing or cannot be read gives no rules
RECURSIVE ParseRules(_)
ParseRules(lines) ==
    IF lines = <<>> THEN <<>>
    ELSE LET r == ParseRule(Head(lines)) IN
         (IF r.rule THEN <<r>> ELSE <<>>) \o ParseRules(Tail(lines))

from_root(gitignore) ==
    IF gitignore.readable THEN ParseRules(gitignore.lines) ELSE <<>>

\* Path.as_posix(): the parts joined by "/"
RECURSIVE JoinSlash(_)
JoinSlash(parts) ==
    IF parts = <<>> THEN <<>>
    ELSE IF Len(parts) = 1 THEN parts[1]
    ELSE parts[1] \o <<"/">> \o JoinSlash(Tail(parts))

\* str.lstrip("./"): leading "." and "/" characters removed
RECURSIVE LStripDotSlash(_)
LStripDotSlash(s) ==
    IF s # <<>> /\ Head(s) \in {".", "/"} THEN LStripDotSlash(Tail(s)) ELSE s

\* a matcher that holds every pattern against the whole path
RuleMatchesWholePath(rule, parts) ==
    fnmatchcase(LStripDotSlash(JoinSlash(parts)), rule.pattern)

\* whether one rule matches the path
RuleMatches(rule, parts) ==
    IF rule.anchored \/ Contains(rule.pattern, <<"/">>)
    THEN fnmatchcase(LStripDotSlash(JoinSlash(parts)), rule.pattern)
    ELSE \E i \in DOMAIN parts : fnmatchcase(parts[i], rule.pattern)

\* the verdict after the rules from index i on, `ignored` being the verdict
\* so far
RECURSIVE IgnoredFrom(_, _, _, _, _)
IgnoredFrom(rules, i, parts, is_dir, ignored) ==
    IF i > Len(rules) THEN ignored
    ELSE IF rules[i].dir_only /\ ~is_dir
    THEN IgnoredFrom(rules, i + 1, parts, is_dir, ignored)
    ELSE IgnoredFrom(rules, i + 1, parts, is_dir,
                     IF RuleMatches(rules[i], parts) THEN ~rules[i].negate
                     ELSE ignored)

\* _Gitignore.is_ignored: every matching rule overwrites the verdict
is_ignored(rules, parts, is_dir) == IgnoredFrom(rules, 1, parts, is_dir, FALSE)

\* str.startswith(".") of an entry name
Hidden(name) == StartsWith(name, <<".">>)

\* bounds of the snapshot (module constants of repo/snapshot.py)
MAX_TOP_LEVEL_ENTRIES == 50
MAX_HINT_LINES == 20
MAX_HINT_LINE_LENGTH == 200
DIR_SUMMARY_MAX_DEPTH == 4
DIR_SUMMARY_MAX_ITEMS == 1000
FD_MAX_RESULTS == 5000

\* Directory entries. An entry with n > 1 stands for n files that are named
\* alike (f0.txt, f1.txt, ...): no rule tells them apart, lists hold them
\* as one block of n, and a loop over them is taken n steps at a time.
\* A file of the model that is read has its lines.
TextFile(name, lines) ==
    [name |-> name, is_dir |-> FALSE, n |-> 1, entries |-> <<>>,
     lines |-> lines]
File(name) == TextFile(name, <<>>)
Files(name, n) == [File(name) EXCEPT !.n = n]
Dir(name, entries) ==
    [name |-> name, is_dir |-> TRUE, n |-> 1, entries |-> entries,
     lines |-> <<>>]

\* number of entries a list of blocks holds
RECURSIVE Total(_)
Total(blocks) ==
    IF blocks = <<>> THEN 0 ELSE Head(blocks).n + Total(Tail(blocks))

\* the first `limit` entries of a list of blocks
RECURSIVE FirstEntries(_, _)
FirstEntries(blocks, limit) ==
    IF blocks = <<>> \/ limit <= 0 THEN <<>>
    ELSE IF Head(blocks).n >= limit
    THEN <<[Head(blocks) EXCEPT !.n = limit]>>
    ELSE <<Head(blocks)>> \o FirstEntries(Tail(blocks), limit - Head(blocks).n)

RECURSIVE Reverse(_)
Reverse(seq) ==
    IF seq = <<>> THEN <<>> ELSE Append(Reverse(Tail(seq)), Head(seq))

\* a gitignore glob as fd applies it: like fnmatchcase, but * and ? stop at
\* "/" (** is not modelled)
RECURSIVE GlobMatch(_, _)
GlobMatch(name, pattern) ==
    IF pattern = <<>> THEN name = <<>>
    ELSE IF Head(pattern) = "*"
    THEN \/ GlobMatch(name, Tail(pattern))
         \/ name # <<>> /\ Head(name) # "/" /\ GlobMatch(Tail(name), pattern)
    ELSE IF Head(pattern) = "?"
    THEN name # <<>> /\ Head(name) # "/"
         /\ GlobMatch(Tail(name), Tail(pattern))
    ELSE /\ name # <<>>
         /\ Head(name) = Head(pattern)
         /\ GlobMatch(Tail(name), Tail(pattern))

\* whether fd leaves out the entry at `parts` (fd reads the rules of
\* .gitignore, --no-require-git): a pattern without "/" is matched against
\* the entry's name, any other against its path from the root; the last
\* matching rule decides. fd does not descend into a directory it leaves out.
RECURSIVE FdIgnoredFrom(_, _, _, _, _)
FdIgnoredFrom(rules, i, parts, is_dir, ignored) ==
    IF i > Len(rules) THEN ignored
    ELSE LET rule == rules[i]
             matched ==
                 /\ rule.dir_only => is_dir
                 /\ IF rule.anchored \/ Contains(rule.pattern, <<"/">>)
                    THEN GlobMatch(JoinSlash(parts), rule.pattern)
                    ELSE GlobMatch(parts[Len(parts)], rule.pattern)
         IN FdIgnoredFrom(rules, i + 1, parts, is_dir,
                          IF matched THEN ~rule.negate ELSE ignored)

GitDir == <<".", "g", "i", "t">>

\* the lines fd prints for the entries below `prefix`, a directory before
\* what it holds: the path from the root, with a trailing "/" for a
\* directory
RECURSIVE FdWalk(_, _, _, _, _, _)
FdWalk(entries, prefix, rules, include_hidden, max_depth, types) ==
    IF entries = <<>> \/ Len(prefix) >= max_depth THEN <<>>
    ELSE LET e == Head(entries)
             parts == Append(prefix, e.name)
             skipped ==
                 \/ e.name = GitDir
                 \/ ~include_hidden /\ Hidden(e.name)
                 \/ FdIgnoredFrom(rules, 1, parts, e.is_dir, FALSE)
             kind == IF e.is_dir THEN "d" ELSE "f"
             line == [line |-> JoinSlash(parts)
                                 \o (IF e.is_dir THEN <<"/">> ELSE <<>>),
                      n |-> e.n]
         IN (IF skipped THEN <<>>
             ELSE (IF kind \in types THEN <<line>> ELSE <<>>)
                  \o FdWalk(e.entries, parts, rules, include_hidden,
                            max_depth, types))
            \o FdWalk(Tail(entries), prefix, rules, include_hidden,
                      max_depth, types)

\* a depth no tree of the model reaches (no --max-depth)
NoMaxDepth == 99

\* _fd_list: None when fd is not installed, times out or fails; otherwise
\* the first max_results lines of its output, in the order fd found them,
\* with the trailing "/" of directories removed
\* the order in which fd prints what it found
InFdOrder(found, order) ==
    IF order = "forward" THEN found ELSE Reverse(found)

\* item[:-1] if item.endswith("/") else item, for every item
NormalizedItems(printed) ==
    [i \in DOMAIN printed |->
        [line |-> IF printed[i].line[Len(printed[i].line)] = "/"
                  THEN SubSeq(printed[i].line, 1, Len(printed[i].line) - 1)
                  ELSE printed[i].line,
         n |-> printed[i].n]]

fd_list(root, fd, include_hidden, max_depth, max_results, types) ==
    IF ~fd.ok THEN [none |-> TRUE]
    ELSE [none |-> FALSE,
          items |->
              NormalizedItems(
                  FirstEntries(
                      InFdOrder(FdWalk(root.entries, <<>>,
                                       from_root(root.gitignore),
                                       include_hidden, max_depth, types),
                                fd.order),
                      max_results))]

\* Path(item).name
PathName(item) == LET parts == SplitSlash(item, <<>>) IN parts[Len(parts)]

\* the entry of `entries` at the path `parts`, a file when there is none
RECURSIVE EntryAt(_, _)
EntryAt(entries, parts) ==
    IF entries = <<>> THEN File(<<>>)
    ELSE IF Head(entries).name = Head(parts)
    THEN IF Len(parts) = 1 THEN Head(entries)
         ELSE EntryAt(Head(entries).entries, Tail(parts))
    ELSE EntryAt(Tail(entries), parts)

\* the characters of the names of the model, in code point order
Ascii ==
    <<" ", "!", "#", "$", "*", "-", ".", "/",
      "0", "1", "2", "3", "4", "5", "6", "7", "8", "9", ":", "?">>
    \o UpperCase \o <<"_">> \o LowerCase

Ord(c) == CHOOSE i \in DOMAIN Ascii : Ascii[i] = c

\* a < b for two names, as str compares them
RECURSIVE NameBefore(_, _)
NameBefore(a, b) ==
    IF b = <<>> THEN FALSE
    ELSE IF a = <<>> THEN TRUE
    ELSE IF Head(a) = Head(b) THEN NameBefore(Tail(a), Tail(b))
    ELSE Ord(Head(a)) < Ord(Head(b))

RECURSIVE InsertByName(_, _)
InsertByName(sorted, e) ==
    IF sorted = <<>> THEN <<e>>
    ELSE IF NameBefore(e.name, Head(sorted).name)
    THEN <<e>> \o sorted
    ELSE <<Head(sorted)>> \o InsertByName(Tail(sorted), e)

\* sorted(root.iterdir()); the files of a block are named from the block's
\* name on and sort together
RECURSIVE SortedEntries(_)
SortedEntries(entries) ==
    IF entries = <<>> THEN <<>>
    ELSE InsertByName(SortedEntries(Tail(entries)), Head(entries))

\* the loop of _get_top_level_entries over what fd listed
RECURSIVE TopLevelOfItems(_, _)
TopLevelOfItems(root, items) ==
    IF items = <<>> THEN <<>>
    ELSE LET item == Head(items)
             name == PathName(item.line)
             full == EntryAt(root.entries, SplitSlash(item.line, <<>>))
         IN (IF Hidden(name) THEN <<>>
             ELSE <<[name |-> name,
                     type |-> IF full.is_dir THEN "dir" ELSE "file",
                     n |-> item.n]>>)
            \o TopLevelOfItems(root, Tail(items))

\* the loop of _get_top_level_entries over the directory itself
RECURSIVE TopLevelOfEntries(_, _)
TopLevelOfEntries(rules, entries) ==
    IF entries = <<>> THEN <<>>
    ELSE LET item == Head(entries)
         IN (IF Hidden(item.name)
                \/ is_ignored(rules, <<item.name>>, item.is_dir)
             THEN <<>>
             ELSE <<[name |-> item.name,
                     type |-> IF item.is_dir THEN "dir" ELSE "file",
                     n |-> item.n]>>)
            \o TopLevelOfEntries(rules, Tail(entries))

\* a top-level listing that leaves the ignore rules out
get_top_level_entries_unfiltered(root, fd) ==
    FirstEntries(TopLevelOfEntries(<<>>, SortedEntries(root.entries)),
                 MAX_TOP_LEVEL_ENTRIES)

\* _get_top_level_entries after its call of _fd_list: both loops stop at
\* MAX_TOP_LEVEL_ENTRIES entries
TopLevelEntries(root, fd_items) ==
    IF ~fd_items.none
    THEN FirstEntries(TopLevelOfItems(root, fd_items.items),
                      MAX_TOP_LEVEL_ENTRIES)
    ELSE FirstEntries(TopLevelOfEntries(from_root(root.gitignore),
                                        SortedEntries(root.entries)),
                      MAX_TOP_LEVEL_ENTRIES)

\* _get_top_level_entries
get_top_level_entries(root, fd) ==
    TopLevelEntries(root,
                    fd_list(root, [ok |-> fd.top_ok, order |-> fd.order],
                            FALSE, 1, MAX_TOP_LEVEL_ENTRIES * 5, {"f", "d"}))

\* _directory_summary_from_files: one more, up to DIR_SUMMARY_MAX_ITEMS, for
\* the first segment of every path with a "/" whose first segment is not
\* hidden
RECURSIVE directory_summary_from_files(_, _)
directory_summary_from_files(files, summary) ==
    IF files = <<>> THEN summary
    ELSE LET rel == Head(files).line
             parts == SplitSlash(rel, <<>>)
             top == parts[1]
             before == IF top \in DOMAIN summary THEN summary[top] ELSE 0
         IN directory_summary_from_files(
                Tail(files),
                IF Len(parts) < 2 \/ Hidden(top) THEN summary
                ELSE [t \in DOMAIN summary \cup {top} |->
                         IF t = top
                         THEN Min(before + Head(files).n,
                                  DIR_SUMMARY_MAX_ITEMS)
                         ELSE summary[t]])

\* the for loop of count_dir over the entries of one directory: every entry
\* that is neither hidden nor ignored counts, a directory as much as a file;
\* the loop returns at DIR_SUMMARY_MAX_ITEMS and queues the directories
\* above DIR_SUMMARY_MAX_DEPTH
RECURSIVE CountEntries(_, _, _, _, _, _)
CountEntries(rules, entries, parts, depth, count, queue) ==
    IF entries = <<>> THEN [count |-> count, returned |-> FALSE, queue |-> queue]
    ELSE LET entry == Head(entries)
             rel == Append(parts, entry.name)
         IN IF Hidden(entry.name) \/ is_ignored(rules, rel, entry.is_dir)
            THEN CountEntries(rules, Tail(entries), parts, depth, count, queue)
            ELSE IF count + entry.n >= DIR_SUMMARY_MAX_ITEMS
            THEN [count |-> DIR_SUMMARY_MAX_ITEMS, returned |-> TRUE,
                  queue |-> queue]
            ELSE CountEntries(
                     rules, Tail(entries), parts, depth, count + entry.n,
                     IF entry.is_dir /\ depth < DIR_SUMMARY_MAX_DEPTH
                     THEN Append(queue, [dir |-> entry, parts |-> rel,
                                         depth |-> depth + 1])
                     ELSE queue)

\* the while loop of count_dir: the directory queued last is walked next
RECURSIVE CountQueue(_, _, _)
CountQueue(rules, queue, count) ==
    IF queue = <<>> \/ count >= DIR_SUMMARY_MAX_ITEMS
    THEN Min(count, DIR_SUMMARY_MAX_ITEMS)
    ELSE LET current == queue[Len(queue)]
             rest == SubSeq(queue, 1, Len(queue) - 1)
         IN IF current.depth > DIR_SUMMARY_MAX_DEPTH
            THEN CountQueue(rules, rest, count)
            ELSE LET walked == CountEntries(rules, current.dir.entries,
                                            current.parts, current.depth,
                                            count, rest)
                 IN IF walked.returned THEN DIR_SUMMARY_MAX_ITEMS
                    ELSE CountQueue(rules, walked.queue, walked.count)

count_dir(rules, top_dir) ==
    CountQueue(rules,
               <<[dir |-> top_dir, parts |-> <<top_dir.name>>, depth |-> 0]>>,
               0)

\* the top-level directories the fallback of _get_directory_summary counts
CountedDirs(rules, entries) ==
    {i \in DOMAIN entries :
        /\ ~Hidden(entries[i].name)
        /\ entries[i].is_dir
        /\ ~is_ignored(rules, <<entries[i].name>>, TRUE)}

\* _get_directory_summary: the files fd lists (at most FD_MAX_RESULTS, hidden
\* ones included) by top-level directory, or else count_dir of every
\* top-level directory that is neither hidden nor ignored
DirectorySummary(root, rules, fd_files) ==
    IF ~fd_files.none
    THEN directory_summary_from_files(fd_files.items, <<>>)
    ELSE [name \in {root.entries[i].name :
                       i \in CountedDirs(rules, root.entries)} |->
             count_dir(rules,
                       root.entries[CHOOSE i \in DOMAIN root.entries :
                                       root.entries[i].name = name])]

get_directory_summary(root, fd) ==
    DirectorySummary(root, from_root(root.gitignore),
                     fd_list(root, [ok |-> fd.summary_ok, order |-> fd.order],
                             TRUE, NoMaxDepth, FD_MAX_RESULTS, {"f"}))

MAX_HINT_FILE_BYTES == 64000

HINT_FILES ==
    <<<<"R", "E", "A", "D", "M", "E", "*">>,
      <<"C", "O", "N", "T", "R", "I", "B", "U", "T", "I", "N", "G", "*">>,
      <<"M", "a", "k", "e", "f", "i", "l", "e">>,
      <<"j", "u", "s", "t", "f", "i", "l", "e">>,
      <<"p", "a", "c", "k", "a", "g", "e", ".", "j", "s", "o", "n">>>>

HeadingWords ==
    {<<"g", "e", "t", "t", "i", "n", "g", " ", "s", "t", "a", "r", "t", "e", "d">>,
     <<"q", "u", "i", "c", "k", " ", "s", "t", "a", "r", "t">>,
     <<"i", "n", "s", "t", "a", "l", "l", "a", "t", "i", "o", "n">>,
     <<"u", "s", "a", "g", "e">>,
     <<"h", "o", "w", " ", "t", "o">>,
     <<"r", "u", "n", "n", "i", "n", "g">>}
PackageManagers == {<<"n", "p", "m">>,
                    <<"y", "a", "r", "n">>,
                    <<"p", "n", "p", "m">>,
                    <<"b", "u", "n">>}
PackageCommands ==
    {<<"r", "u", "n">>,
     <<"i", "n", "s", "t", "a", "l", "l">>,
     <<"s", "t", "a", "r", "t">>,
     <<"d", "e", "v">>,
     <<"b", "u", "i", "l", "d">>,
     <<"t", "e", "s", "t">>}
PythonTools ==
    {<<"p", "y", "t", "h", "o", "n">>,
     <<"p", "i", "p">>,
     <<"u", "v">>,
     <<"r", "y", "e">>,
     <<"p", "o", "e", "t", "r", "y">>}
MakeTools == {<<"m", "a", "k", "e">>,
              <<"j", "u", "s", "t">>}
BuildTools ==
    {<<"c", "a", "r", "g", "o">>,
     <<"g", "o">>,
     <<"g", "r", "a", "d", "l", "e">>,
     <<"m", "a", "v", "e", "n">>}
BuildCommands == {<<"r", "u", "n">>,
                  <<"b", "u", "i", "l", "d">>,
                  <<"t", "e", "s", "t">>}

StartsWithAny(s, words) == \E w \in words : StartsWith(s, w)

\* what follows (word)\s+ at the start of s, for every word of `words`
AfterWordAndSpace(s, words) ==
    {LStrip(SubSeq(s, Len(w) + 1, Len(s))) :
        w \in {w \in words : /\ StartsWith(s, w)
                             /\ Len(s) > Len(w)
                             /\ s[Len(w) + 1] \in Whitespace}}

RECURSIVE LStripHashes(_)
LStripHashes(s) ==
    IF s # <<>> /\ Head(s) = "#" THEN LStripHashes(Tail(s)) ELSE s

\* whether a regex of HINT_PATTERNS (re.IGNORECASE) is found in the line
MatchesHintPattern(line) ==
    LET l == Lower(line)
    IN \/ /\ StartsWith(l, <<"#">>)
          /\ StartsWithAny(LStrip(LStripHashes(l)), HeadingWords)
       \/ \E rest \in AfterWordAndSpace(l, PackageManagers) :
              StartsWithAny(rest, PackageCommands)
       \/ AfterWordAndSpace(l, PythonTools) # {}
       \/ \E rest \in AfterWordAndSpace(l, MakeTools) :
              rest # <<>> /\ Head(rest) \in AlnumChars \cup {"_"}
       \/ \E rest \in AfterWordAndSpace(l, BuildTools) :
              StartsWithAny(rest, BuildCommands)
       \/ AfterWordAndSpace(l, {<<"$">>}) # {}

\* f.read(MAX_HINT_FILE_BYTES).splitlines(): the lines up to the limit, a
\* line feed after each
RECURSIVE ReadLines(_, _)
ReadLines(lines, limit) ==
    IF lines = <<>> \/ limit <= 0 THEN <<>>
    ELSE <<Take(Head(lines), limit)>>
         \o ReadLines(Tail(lines), limit - Len(Head(lines)) - 1)

\* the loop of _extract_run_hints over the lines of one file: a blank line
\* is passed over; after any other line the loop ends once there are
\* MAX_HINT_LINES hints
RECURSIVE HintsOfLines(_, _)
HintsOfLines(lines, hints) ==
    IF lines = <<>> THEN hints
    ELSE LET line == Strip(Head(lines))
             truncated == Take(line, MAX_HINT_LINE_LENGTH)
             found == IF MatchesHintPattern(line)
                         /\ ~\E i \in DOMAIN hints : hints[i] = truncated
                      THEN Append(hints, truncated)
                      ELSE hints
         IN IF line = <<>> THEN HintsOfLines(Tail(lines), hints)
            ELSE IF Len(found) >= MAX_HINT_LINES THEN found
            ELSE HintsOfLines(Tail(lines), found)

\* the loop over the paths of one glob: directories, hidden and ignored
\* files are passed over; after any other file the loop ends once there are
\* MAX_HINT_LINES hints
RECURSIVE HintsOfPaths(_, _, _)
HintsOfPaths(rules, paths, hints) ==
    IF paths = <<>> THEN hints
    ELSE LET path == Head(paths)
             found == HintsOfLines(ReadLines(path.lines, MAX_HINT_FILE_BYTES),
                                   hints)
         IN IF path.is_dir \/ Hidden(path.name)
               \/ is_ignored(rules, <<path.name>>, FALSE)
            THEN HintsOfPaths(rules, Tail(paths), hints)
            ELSE IF Len(found) >= MAX_HINT_LINES THEN found
            ELSE HintsOfPaths(rules, Tail(paths), found)

\* root.glob(pattern)
RECURSIVE Glob(_, _)
Glob(entries, pattern) ==
    IF entries = <<>> THEN <<>>
    ELSE (IF fnmatchcase(Head(entries).name, pattern)
          THEN <<Head(entries)>> ELSE <<>>)
         \o Glob(Tail(entries), pattern)

\* the loop over HINT_FILES, which no number of hints ends
RECURSIVE HintsOfPatterns(_, _, _)
HintsOfPatterns(root, patterns, hints) ==
    IF patterns = <<>> THEN hints
    ELSE HintsOfPatterns(
             root, Tail(patterns),
             HintsOfPaths(from_root(root.gitignore),
                          Glob(root.entries, Head(patterns)), hints))

\* _extract_run_hints
extract_run_hints(root) == HintsOfPatterns(root, HINT_FILES, <<>>)

(* ------------------------- snapshots of a tree -------------------------- *)

KeptDir == <<"k", "e", "p", "t", "_", "d", "i", "r">>
IgnoredDir == <<"i", "g", "n", "o", "r", "e", "d", "_", "d", "i", "r">>
KeepTxt == <<"k", "e", "e", "p", ".", "t", "x", "t">>
IgnoredTxt == <<"i", "g", "n", "o", "r", "e", "d", ".", "t", "x", "t">>
ATxt == <<"a", ".", "t", "x", "t">>
BTxt == <<"b", ".", "t", "x", "t">>
FTxt == <<"f", ".", "t", "x", "t">>
MTxt == <<"m", ".", "t", "x", "t">>
BigDir == <<"b", "i", "g">>
MidDir == <<"m", "i", "d">>
EmptyDir == <<"e", "m", "p", "t", "y">>
GithubDir == <<".", "g", "i", "t", "h", "u", "b">>
DotHidden == <<".", "h", "i", "d", "d", "e", "n">>
GitignoreFile == <<".", "g", "i", "t", "i", "g", "n", "o", "r", "e">>
ReadmeMd == <<"R", "E", "A", "D", "M", "E", ".", "m", "d">>
ReadmeRst == <<"R", "E", "A", "D", "M", "E", ".", "r", "s", "t">>
ContributingMd == <<"C", "O", "N", "T", "R", "I", "B", "U", "T", "I", "N", "G", ".", "m", "d">>
Makefile == <<"M", "a", "k", "e", "f", "i", "l", "e">>
Justfile == <<"j", "u", "s", "t", "f", "i", "l", "e">>
PackageJson == <<"p", "a", "c", "k", "a", "g", "e", ".", "j", "s", "o", "n">>

\* the directory d1 ... d6
DirName(i) == <<"d", IntText(i)[1]>>

\* more files than DIR_SUMMARY_MAX_ITEMS, and more than MAX_TOP_LEVEL_ENTRIES
ManyFiles == 1005
ManyEntries == 60

\* dir/d1/.../d<depth>/ with ManyFiles files in the last directory
RECURSIVE Nested(_, _)
Nested(i, depth) ==
    IF i > depth THEN <<Files(FTxt, ManyFiles)>>
    ELSE <<Dir(DirName(i), Nested(i + 1, depth))>>

\* the trees of the model: the one of test_respects_root_gitignore, the one
\* of test_directory_summary_caps_at_1000, six directories of more than
\* DIR_SUMMARY_MAX_ITEMS files, the many files four and five directories
\* down, more top-level files than MAX_TOP_LEVEL_ENTRIES, an empty
\* directory, and hidden directories and files
Trees ==
    {<<Dir(IgnoredDir, <<File(BTxt)>>), File(IgnoredTxt), File(KeepTxt),
       Dir(KeptDir, <<File(ATxt)>>)>>,
     <<Dir(BigDir, <<Files(FTxt, ManyFiles)>>), File(KeepTxt)>>,
     [i \in 1..6 |-> Dir(DirName(i), <<Files(FTxt, ManyFiles)>>)],
     <<Dir(MidDir, Nested(1, 4))>>,
     <<Dir(BigDir, Nested(1, 5))>>,
     <<Files(MTxt, ManyEntries), Dir(KeptDir, <<File(ATxt)>>)>>,
     <<Dir(EmptyDir, <<>>), File(KeepTxt)>>,
     <<Dir(GithubDir, <<File(ATxt)>>), Dir(GitDir, <<File(BTxt)>>),
       Dir(KeptDir, <<File(DotHidden), File(ATxt)>>)>>}

\* the lines of .gitignore, None for a root without one
GitIgnores ==
    {[readable |-> FALSE, lines |-> <<>>],
     [readable |-> TRUE, lines |-> <<<<"i", "g", "n", "o", "r", "e", "d", "_", "d", "i", "r", "/">>,
                                     <<"i", "g", "n", "o", "r", "e", "d", ".", "t", "x", "t">>>>],
     [readable |-> TRUE, lines |-> <<<<"#", " ", "n", "o", "t", "e", "s">>,
                                     <<>>,
                                     <<"*", ".", "t", "x", "t">>,
                                     <<"!", "k", "e", "e", "p", ".", "t", "x", "t">>,
                                     <<" ", "*", ".", "m", "d", " ">>>>],
     [readable |-> TRUE, lines |-> <<<<"/", "d", "1">>,
                                     <<"d", "2", "/">>,
                                     <<"!">>>>],
     [readable |-> TRUE, lines |-> <<<<"k", "e", "p", "t", "_", "d", "i", "r", "/", "*", ".", "t", "x", "t">>,
                                     <<"/", "b", "i", "g", "/">>,
                                     <<"m", "*">>>>]}

\* "$ a", "$ aa", ...: n hint lines that differ
ShellLines(n) == [i \in 1..n |-> <<"$", " ">> \o Chars(i, "a")]

\* the documentation at the root: none; a README with every kind of hint,
\* two lines over MAX_HINT_LINE_LENGTH that are alike up to it, a repeated
\* line and lines that are no hints; a README with more hints than
\* MAX_HINT_LINES; two READMEs that reach it together; and a full README
\* followed by one file of every other pattern
HintFiles ==
    {<<>>,
     <<TextFile(ReadmeMd,
           <<<<"#", " ", "U", "s", "a", "g", "e">>,
            <<>>,
            <<" ", " ", "n", "p", "m", " ", "i", "n", "s", "t", "a", "l", "l">>,
            <<"S", "o", "m", "e", " ", "t", "e", "x", "t">>,
            <<"$", " ", "l", "s">>,
            <<"$", " ", "l", "s">>,
            <<"m", "a", "k", "e", " ", "a", "l", "l">>,
            <<"p", "i", "p", " ", "i", "n", "s", "t", "a", "l", "l", " ", "x">>,
            <<"c", "a", "r", "g", "o", " ", "b", "u", "i", "l", "d">>,
            <<"g", "o", " ", "f", "m", "t">>,
            <<"#", "#", " ", "N", "o", "t", "e", "s">>,
            <<"j", "u", "s", "t">>,
            <<"P", "Y", "T", "H", "O", "N", " ", " ", "-", "m", " ", "x">>>>
           \o <<<<"$", " ">> \o Chars(250, "x"),
                <<"$", " ">> \o Chars(300, "x")>>)>>,
     <<TextFile(ReadmeMd, ShellLines(MAX_HINT_LINES + 5))>>,
     <<TextFile(ReadmeMd, ShellLines(MAX_HINT_LINES - 1)),
       TextFile(ReadmeRst, <<<<"$", " ", "l", "s">>,
                           <<"$", " ", "p", "w", "d">>,
                           <<"$", " ", "c", "d">>>>)>>,
     <<TextFile(ReadmeMd, ShellLines(MAX_HINT_LINES)),
       TextFile(ContributingMd, <<<<>>,
                                <<"#", " ", "G", "e", "t", "t", "i", "n", "g", " ", "s", "t", "a", "r", "t", "e", "d">>,
                                <<"$", " ", "l", "s">>>>),
       TextFile(Makefile, <<<<"m", "a", "k", "e", " ", "a", "l", "l">>>>),
       TextFile(Justfile, <<<<"j", "u", "s", "t", " ", "b", "u", "i", "l", "d">>>>),
       TextFile(PackageJson, <<<<"$", " ", "n", "p", "m", " ", "s", "t", "a", "r", "t">>>>)>>}

\* fd: whether each of its two runs succeeds, and the order of its output
FdRuns ==
    [top_ok : BOOLEAN, summary_ok : BOOLEAN, order : {"forward", "reverse"}]

Roots ==
    {[entries |-> tree \o hints
                  \o (IF gitignore.readable THEN <<File(GitignoreFile)>>
                      ELSE <<>>),
      gitignore |-> gitignore] :
        tree \in Trees, hints \in HintFiles, gitignore \in GitIgnores}

\* create_snapshot: the listing, the summary and the hints of one root
create_snapshot(root, fd) ==
    [top_level |-> get_top_level_entries(root, fd),
     directory_summary |-> get_directory_summary(root, fd),
     run_hints |-> extract_run_hints(root)]

CreateSnapshot ==
    /\ call = Idle
    /\ \E root \in Roots, fd \in FdRuns :
         call' = [op |-> "create_snapshot", root |-> root, fd |-> fd,
                  snapshot |-> create_snapshot(root, fd)]
    /\ UNCHANGED <<procs, learned_associations, tool_executions,
                   session_summaries, sqlite_sequence, clock, observed>>

NextSnapshot == CreateSnapshot

SpecSnapshot == Init /\ [][NextSnapshot]_vars

(* ------------------ the ignore rules over rules and paths --------------- *)

\* lines of a .gitignore: plain, negated, directory-only, anchored and
\* path-containing rules, a comment, a blank line and a bare "!"
RuleLines ==
    {<<"*", ".", "t", "x", "t">>,
     <<"!", "k", "e", "e", "p", ".", "t", "x", "t">>,
     <<"b", "u", "i", "l", "d", "/">>,
     <<"/", "s", "r", "c">>,
     <<"a", "/", "*">>,
     <<"d", "o", "c", "s", "/", "b">>,
     <<"!", "/", "a", "/", "b", "/">>,
     <<"#", " ", "c">>,
     <<" ">>,
     <<"!">>}

RECURSIVE SeqsUpTo(_, _)
SeqsUpTo(set, n) ==
    IF n = 0 THEN {<<>>}
    ELSE SeqsUpTo(set, n - 1)
         \cup {Append(seq, x) : seq \in SeqsUpTo(set, n - 1), x \in set}

\* paths from the root, as the scanner hands them over: no segment is hidden
RelPaths ==
    {<<<<"k", "e", "e", "p", ".", "t", "x", "t">>>>,
     <<<<"b", "u", "i", "l", "d">>>>,
     <<<<"s", "r", "c">>>>,
     <<<<"a">>, <<"s", "r", "c">>>>,
     <<<<"a">>, <<"b">>>>,
     <<<<"a">>, <<"b">>, <<"c", ".", "t", "x", "t">>>>,
     <<<<"d", "o", "c", "s">>, <<"b">>>>,
     <<<<"x">>, <<"d", "o", "c", "s">>, <<"b">>>>,
     <<<<"x">>, <<"b", "u", "i", "l", "d">>>>}

IsIgnored ==
    /\ call = Idle
    /\ \E lines \in SeqsUpTo(RuleLines, MaxRules), parts \in RelPaths,
          is_dir \in BOOLEAN :
         \E rules \in {from_root([readable |-> TRUE, lines |-> lines])} :
            call' = [op |-> "is_ignored", lines |-> lines, rules |-> rules,
                     parts |-> parts, is_dir |-> is_dir,
                     ignored |-> is_ignored(rules, parts, is_dir)]
    /\ UNCHANGED <<procs, learned_associations, tool_executions,
                   session_summaries, sqlite_sequence, clock, observed>>

NextIgnore == IsIgnored

SpecIgnore == Init /\ [][NextIgnore]_vars

(* ---------------------- version-control metadata ------------------------ *)

\* str.split(sep) for a separator of one character
RECURSIVE SplitAt(_, _, _)
SplitAt(text, sep, part) ==
    IF text = <<>> THEN <<part>>
    ELSE IF Head(text) = sep
    THEN <<part>> \o SplitAt(Tail(text), sep, <<>>)
    ELSE SplitAt(Tail(text), sep, Append(part, Head(text)))

\* str.split(" ", 1)
SplitOnce(line) ==
    IF \E i \in DOMAIN line : line[i] = " "
    THEN LET i == CHOOSE i \in DOMAIN line :
                     line[i] = " " /\ \A j \in 1..(i - 1) : line[j] # " "
         IN <<SubSeq(line, 1, i - 1), SubSeq(line, i + 1, Len(line))>>
    ELSE <<line>>

\* _run_git: None when git is missing, exits with an error or takes more
\* than the timeout, else its output, stripped
run_git(out) == IF out = None THEN None ELSE Str(Strip(out.v))

\* the lines of an output that are not blank
NonBlankLines(output) ==
    SelectSeq(SplitAt(output, "\n", <<>>), LAMBDA line : Strip(line) # <<>>)

CommitOf(line) ==
    LET parts == SplitOnce(line)
    IN [sha |-> parts[1],
        message |-> IF Len(parts) = 2 THEN parts[2] ELSE <<>>]

\* _get_git_info after the branch query; a failed query counts as no output
GitInfoOf(branch, status_output, log_output) ==
    IF branch = None
    THEN [git_available |-> FALSE, branch |-> None, status |-> <<>>,
          recent_commits |-> <<>>]
    ELSE [git_available |-> TRUE, branch |-> branch,
          status |-> NonBlankLines(status_output),
          recent_commits |->
              [i \in DOMAIN NonBlankLines(log_output) |->
                  CommitOf(NonBlankLines(log_output)[i])]]

OrEmpty(out) == IF out = None \/ out.v = <<>> THEN <<>> ELSE out.v

\* _get_git_info: git[query] is what the query prints, None when it fails
get_git_info(git) ==
    GitInfoOf(run_git(git.branch), OrEmpty(run_git(git.status)),
              OrEmpty(run_git(git.log)))

\* what git prints for each query, None for a query that fails
GitRuns ==
    [branch : {None, Str(<<"m", "a", "i", "n", "\n">>)},
     status : {None, Str(<<>>), Str(<<" ", "M", " ", "a", ".", "p", "y", "\n", " ", "M", " ", "b", ".", "p", "y", "\n">>)},
     log : {None, Str(<<>>), Str(<<"1", "a", "2", "b", "3", "c", "4", " ", "f", "i", "x", " ", "t", "h", "e", " ", "s", "c", "a", "n", "\n", "5", "d", "6", "e", "7", "f", "8", "\n">>)}]

\* the trees of the snapshots with version-control metadata
GitRoots ==
    {root \in Roots :
        /\ root.gitignore.readable
        /\ \E i \in DOMAIN root.entries : root.entries[i].name = IgnoredDir
        /\ \A i \in DOMAIN root.entries : root.entries[i].lines = <<>>}

\* create_snapshot with the version-control metadata of the root
CreateSnapshotWithGit ==
    /\ call = Idle
    /\ \E root \in GitRoots, fd \in FdRuns, git \in GitRuns :
         call' = [op |-> "create_snapshot", root |-> root, fd |-> fd,
                  git |-> git, info |-> get_git_info(git),
                  snapshot |-> create_snapshot(root, fd)]
    /\ UNCHANGED <<procs, learned_associations, tool_executions,
                   session_summaries, sqlite_sequence, clock, observed>>

NextGit == CreateSnapshotWithGit

SpecGit == Init /\ [][NextGit]_vars

(* ------------------ processes and the recursion guard ------------------- *)

\* os.environ of a process, as far as the program reads it: the value of
\* VOYAGER_FOR_CODE_INTERNAL, None when the variable is unset
Environ(value) == [VOYAGER_FOR_CODE_INTERNAL |-> value]

GuardSet == Str(<<"1">>)

\* llm.is_internal_call
is_internal_call(environ) == environ.VOYAGER_FOR_CODE_INTERNAL = GuardSet

\* call_claude, lines 129-130: the frame keeps env_backup, the variable
\* becomes "1"
SetGuard(environ) ==
    [frame |-> [env_backup |-> environ.VOYAGER_FOR_CODE_INTERNAL,
                agent |-> FALSE],
     environ |-> Environ(GuardSet)]

\* a finally block that unsets the variable whatever env_backup holds
RestoreGuardByPop(environ, env_backup) == Environ(None)

\* call_claude, the finally block: pop when env_backup is None, else put
\* env_backup back
RestoreGuard(environ, env_backup) ==
    IF env_backup = None THEN Environ(None) ELSE Environ(env_backup)

\* a process: what it runs, which process started it and through which
\* call, its environment, its open call_claude frames (innermost last) and
\* where it is
Process(kind, by, parent, environ) ==
    [kind |-> kind, by |-> by, parent |-> parent, environ |-> environ,
     at_start |-> environ, stack |-> <<>>, pc |-> "running",
     note |-> "none"]

\* a child process inherits the environment of the process that starts it:
\* neither the agent SDK options (llm.py 76-83) nor subprocess.run
\* (detector.py 232-237) is given an env
Spawn(of, kind, by, parent) ==
    Append(of, Process(kind, by, parent, of[parent].environ))

\* what a run of the hook finds, the recursion guard apart
GuardedHookRun(environ, command, llm_run) ==
    [internal |-> is_internal_call(environ),
     stdin |-> [kind |-> "json",
                v |-> Dict("tool_name" :> WriteDocx.tool_name
                           @@ "tool_input" :> WriteDocx.tool_input)],
     file |-> [file |-> "missing"], colbert |-> ColbertMissing,
     llm |-> Llm(command # "none", llm_run), store_ok |-> TRUE]

\* the handler got to subprocess.run in _detect_via_llm
ReachesLlm(h, run) ==
    run.llm.command /\ \E i \in DOMAIN h.trace : h.trace[i].s = "llm"

\* the root process is a voyager command that calls call_claude, or the
\* Claude Code session of a user with the post-tool-use hook installed;
\* `lock` holds which LLM command SkillDetector._get_llm_command finds
InitGuard ==
    /\ learned_associations = EmptyTable
    /\ tool_executions = <<>>
    /\ session_summaries = EmptyTable
    /\ sqlite_sequence = 0
    /\ clock = 0
    /\ observed = EmptyTable
    /\ call = Idle
    /\ \E kind \in {"voyager", "claude"},
          value \in {None, GuardSet, Str(<<"0">>), Str(<<>>)},
          command \in {"claude", "llm", "none"} :
          procs = [lock |-> 0, command |-> command,
                   of |-> <<Process(kind, "user", 0, Environ(value))>>]

\* call_claude up to the try: the guard is saved and set
CallClaudeEnter(p) ==
    /\ procs.of[p].kind = "voyager"
    /\ Len(procs.of[p].stack) < MaxNest
    /\ \E g \in {SetGuard(procs.of[p].environ)} :
         procs' = [procs EXCEPT
                      !.of[p].stack = Append(@, g.frame),
                      !.of[p].environ = g.environ]
    /\ call' = [op |-> "call_claude", step |-> "enter", proc |-> p,
                depth |-> Len(procs.of[p].stack) + 1]
    /\ UNCHANGED <<learned_associations, tool_executions, session_summaries,
                   sqlite_sequence, clock, observed>>

\* _run_agent: query() starts the Claude Code agent of the innermost call
RunAgent(p) ==
    /\ procs.of[p].kind = "voyager"
    /\ Len(procs.of) < MaxSpawn
    /\ LET stack == procs.of[p].stack IN
       /\ stack # <<>>
       /\ ~stack[Len(stack)].agent
       /\ procs' = [procs EXCEPT
                       !.of = Spawn([procs.of EXCEPT
                                        ![p].stack[Len(stack)].agent = TRUE],
                                    "claude", "call_claude", p)]
    /\ call' = [op |-> "call_claude", step |-> "agent", proc |-> p,
                depth |-> Len(procs.of[p].stack)]
    /\ UNCHANGED <<learned_associations, tool_executions, session_summaries,
                   sqlite_sequence, clock, observed>>

\* the innermost call_claude returns: the agent finished, timed out or
\* raised, and the finally block restores the guard
CallClaudeReturn(p) ==
    /\ procs.of[p].kind = "voyager"
    /\ procs.of[p].stack # <<>>
    /\ \E outcome \in {"success", "timeout", "exception"} :
         LET stack == procs.of[p].stack
             frame == stack[Len(stack)]
         IN /\ procs' = [procs EXCEPT
                            !.of[p].stack = SubSeq(stack, 1, Len(stack) - 1),
                            !.of[p].environ =
                                RestoreGuard(@, frame.env_backup)]
            /\ call' = [op |-> "call_claude", step |-> "return", proc |-> p,
                        depth |-> Len(stack), outcome |-> outcome,
                        success |-> outcome = "success"]
    /\ UNCHANGED <<learned_associations, tool_executions, session_summaries,
                   sqlite_sequence, clock, observed>>

\* a Claude Code process uses a tool and fires its PostToolUse hook,
\* `voyager hook post-tool-use`
ToolUse(c) ==
    /\ procs.of[c].kind = "claude"
    /\ procs.of[c].pc = "running"
    /\ Len(procs.of) < MaxSpawn
    /\ procs' = [procs EXCEPT !.of = Spawn(@, "hook", "claude", c)]
    /\ UNCHANGED <<learned_associations, tool_executions, session_summaries,
                   sqlite_sequence, clock, observed, call>>

\* the end of a run of the handler: what it did to the store
HookWrites(h) ==
    /\ learned_associations' = h.table
    /\ tool_executions' = h.rows
    /\ sqlite_sequence' = h.seq
    /\ observed' = IF h.learned # None
                   THEN Observe(observed, h.key, h.result, h.learned)
                   ELSE observed
    /\ clock' = clock + 1

\* a run of post_tool_use, in one step or in two. A run that gets to the
\* subprocess.run of _detect_via_llm starts the LLM command and waits for
\* it, having written nothing yet; when the command returns or times out
\* the run goes on to its end: the answer is parsed and learned, the
\* execution is logged. A run that does not get there ends in its first
\* step.
Hook(h) ==
    /\ procs.of[h].kind = "hook"
    /\ procs.of[h].pc \in {"running", "waiting"}
    /\ \E llm_run \in IF procs.of[h].pc = "running" THEN {Failed("none")}
                      ELSE {Said(Pdf), Failed("TimeoutExpired")} :
       \E run \in {GuardedHookRun(procs.of[h].environ, procs.command,
                                  llm_run)} :
       \E end \in {post_tool_use(learned_associations, tool_executions,
                                 sqlite_sequence, clock + 1, run)} :
         IF procs.of[h].pc = "running" /\ ReachesLlm(end, run)
         THEN /\ Len(procs.of) < MaxSpawn
              /\ procs' = [procs EXCEPT
                              !.of = Spawn([procs.of EXCEPT
                                               ![h].pc = "waiting"],
                                           procs.command, "detector", h)]
              /\ UNCHANGED <<learned_associations, tool_executions,
                             sqlite_sequence, clock, observed>>
         ELSE /\ procs' = [procs EXCEPT
                              !.of = [i \in DOMAIN procs.of |->
                                        IF i = h
                                        THEN [procs.of[i] EXCEPT
                                                 !.pc = "exited",
                                                 !.note = end.note]
                                        ELSE IF procs.of[i].parent = h
                                        THEN [procs.of[i] EXCEPT
                                                 !.pc = "exited"]
                                        ELSE procs.of[i]]]
              /\ HookWrites(end)
    /\ UNCHANGED <<session_summaries, call>>

NextGuard ==
    \/ \E p \in DOMAIN procs.of : CallClaudeEnter(p)
    \/ \E p \in DOMAIN procs.of : RunAgent(p)
    \/ \E p \in DOMAIN procs.of : CallClaudeReturn(p)
    \/ \E c \in DOMAIN procs.of : ToolUse(c)
    \/ \E h \in DOMAIN procs.of : Hook(h)

SpecGuard == InitGuard /\ [][NextGuard]_vars

(* ------------------- detect calls of concurrent processes ---------------- *)

\* the processes that call detect at the same time
Detectors == {1, 2}

\* what a detecting process finds: the tool call is the same for all (one
\* context key, no transcript); the find-skill run and the answer of the
\* LLM command are its own
DetectRequests ==
    [colbert : {ColbertMissing, Colbert(Failed("TimeoutExpired")),
                Colbert(Printed(Top(Num(90), Str(Docx), Str(Docx))))},
     llm : {LlmOff, Llm(TRUE, Said(Pdf)), Llm(TRUE, Said(Docx))}]

InitRace ==
    /\ learned_associations = EmptyTable
    /\ tool_executions = <<>>
    /\ session_summaries = EmptyTable
    /\ sqlite_sequence = 0
    /\ clock = 0
    /\ observed = EmptyTable
    /\ call = Idle
    /\ \E requests \in [Detectors -> DetectRequests] :
          procs = [lock |-> 0,
                   of |-> [p \in Detectors |->
                              [pc |-> "lookup", request |-> requests[p],
                               key |-> None, returned |-> None]]]

\* detect, strategy 2: the context key is made and the association looked
\* up in a transaction of its own; a skill found is returned
DetectLookup(p) ==
    /\ procs.of[p].pc = "lookup"
    /\ \E mk \in {MakeContextKey(WriteDocx.tool_name, WriteDocx.tool_input)} :
       \E learned_skill \in {get_learned_association(learned_associations,
                                                     mk.key)} :
         /\ procs' = [procs EXCEPT
                         !.of[p].key = mk.key,
                         !.of[p].returned = learned_skill,
                         !.of[p].pc = IF Truthy(learned_skill) THEN "done"
                                      ELSE "strategies"]
         /\ call' = [op |-> "detect", step |-> "lookup", proc |-> p,
                     result |-> learned_skill]
    /\ UNCHANGED <<learned_associations, tool_executions, session_summaries,
                   sqlite_sequence, clock, observed>>

\* detect, strategies 3 and 4 of a call that found no association: the
\* subprocess has answered, the skill it named is learned and returned
DetectStrategies(p) ==
    /\ procs.of[p].pc = "strategies"
    /\ \E d \in {detect_colbert(learned_associations, clock + 1,
                                procs.of[p].key, <<>>,
                                procs.of[p].request.colbert,
                                procs.of[p].request.llm.use_llm,
                                procs.of[p].request.llm)} :
         /\ learned_associations' = d.table
         /\ observed' = IF d.learned # None
                        THEN Observe(observed, d.key, d.result, d.learned)
                        ELSE observed
         /\ procs' = [procs EXCEPT !.of[p].returned = d.result,
                                   !.of[p].pc = "done"]
         /\ call' = [op |-> "detect", step |-> "strategies", proc |-> p,
                     result |-> d.result, learned |-> d.learned]
    /\ clock' = clock + 1
    /\ UNCHANGED <<tool_executions, session_summaries, sqlite_sequence>>

NextRace ==
    \/ \E p \in Detectors : DetectLookup(p)
    \/ \E p \in Detectors : DetectStrategies(p)

SpecRace == InitRace /\ [][NextRace]_vars

(* ----------------- the fallback walk, one directory at a time ------------ *)

\* A file system under one top-level directory: `dirs[d]` is what iterdir
\* yields for directory d, `unreadable` the directories whose iterdir
\* raises OSError. An entry is a block of n files, a directory or a symbolic
\* link to a directory; `to` is the directory it is or points at. A
\* directory that holds itself stands for a tree of unbounded depth, a link
\* to a directory above it for a symlink cycle.
FilesEntry(name, n) == [name |-> name, kind |-> "file", to |-> 0, n |-> n]
DirEntry(name, to) == [name |-> name, kind |-> "dir", to |-> to, n |-> 1]
LinkEntry(name, to) == [name |-> name, kind |-> "link", to |-> to, n |-> 1]

\* files in one directory of a deep tree
SomeFiles == 300

LoopName == <<"l", "o", "o", "p">>

WalkTrees ==
    {[dirs |-> <<<<FilesEntry(ATxt, 1), DirEntry(DirName(1), 2)>>,
                 <<FilesEntry(BTxt, 1)>>>>, unreadable |-> {}],
     [dirs |-> <<<<FilesEntry(ATxt, 1), DirEntry(DirName(1), 2),
                   LinkEntry(LoopName, 1)>>,
                 <<LinkEntry(LoopName, 1), FilesEntry(BTxt, 1)>>>>,
      unreadable |-> {}],
     [dirs |-> <<<<FilesEntry(ATxt, 1), DirEntry(DirName(1), 1),
                   LinkEntry(LoopName, 1)>>>>, unreadable |-> {}],
     [dirs |-> <<<<FilesEntry(FTxt, SomeFiles), DirEntry(DirName(1), 1)>>>>,
      unreadable |-> {}],
     [dirs |-> <<<<DirEntry(DirName(1), 1), DirEntry(DirName(2), 1),
                   FilesEntry(<<".", "h">>, 1), DirEntry(IgnoredDir, 1)>>>>,
      unreadable |-> {}],
     [dirs |-> <<<<FilesEntry(FTxt, ManyFiles)>>>>, unreadable |-> {}],
     [dirs |-> <<<<DirEntry(DirName(1), 2), FilesEntry(ATxt, 1)>>, <<>>>>,
      unreadable |-> {2}],
     [dirs |-> <<<<>>>>, unreadable |-> {}]}

\* no .gitignore at the root, or one that ignores a directory by name
WalkGitIgnores ==
    {[readable |-> FALSE, lines |-> <<>>],
     [readable |-> TRUE, lines |-> <<IgnoredDir \o <<"/">>>>]}

\* entry.is_dir(follow_symlinks=True): a link to a directory is a directory
IsDirFollowing(entry) == entry.kind \in {"dir", "link"}

\* entry.is_dir(follow_symlinks=False)
IsDirNoFollow(entry) == entry.kind = "dir"

\* current.iterdir(), each entry with the entry_is_dir count_dir computes
Listing(fs, dir) ==
    [i \in DOMAIN fs.dirs[dir.to] |->
        [name |-> fs.dirs[dir.to][i].name,
         kind |-> fs.dirs[dir.to][i].kind,
         to |-> fs.dirs[dir.to][i].to,
         n |-> fs.dirs[dir.to][i].n,
         is_dir |-> IsDirNoFollow(fs.dirs[dir.to][i])]]

\* count_dir(top_dir) is called: count = 0, queue = [(top_dir, 0)]
InitWalk ==
    /\ learned_associations = EmptyTable
    /\ tool_executions = <<>>
    /\ session_summaries = EmptyTable
    /\ sqlite_sequence = 0
    /\ clock = 0
    /\ observed = EmptyTable
    /\ procs = NoProcs
    /\ \E fs \in WalkTrees, gitignore \in WalkGitIgnores :
          call = [op |-> "count_dir", fs |-> fs,
                  rules |-> from_root(gitignore), count |-> 0,
                  queue |-> <<[dir |-> DirEntry(KeptDir, 1),
                               parts |-> <<KeptDir>>, depth |-> 0]>>,
                  listed |-> <<>>, done |-> FALSE, result |-> None]

\* one turn of the while loop: the directory queued last is popped; past
\* DIR_SUMMARY_MAX_DEPTH or when iterdir raises OSError the loop goes on,
\* else the directory is listed and its entries are counted and queued
CountDirLoop ==
    /\ call.op = "count_dir"
    /\ ~call.done
    /\ call.queue # <<>>
    /\ call.count < DIR_SUMMARY_MAX_ITEMS
    /\ LET current == call.queue[Len(call.queue)]
           rest == SubSeq(call.queue, 1, Len(call.queue) - 1)
       IN IF current.depth > DIR_SUMMARY_MAX_DEPTH
             \/ current.dir.to \in call.fs.unreadable
          THEN call' = [call EXCEPT !.queue = rest]
          ELSE \E walked \in {CountEntries(call.rules,
                                  Listing(call.fs, current.dir),
                                  current.parts, current.depth, call.count,
                                  rest)} :
                 call' = [call EXCEPT
                             !.listed = Append(@, [kind |-> current.dir.kind,
                                                   depth |-> current.depth]),
                             !.count = walked.count,
                             !.queue = walked.queue,
                             !.done = walked.returned,
                             !.result = IF walked.returned
                                        THEN Num(DIR_SUMMARY_MAX_ITEMS)
                                        ELSE None]
    /\ UNCHANGED <<procs, learned_associations, tool_executions,
                   session_summaries, sqlite_sequence, clock, observed>>

\* the while loop ends: return min(count, DIR_SUMMARY_MAX_ITEMS)
CountDirReturn ==
    /\ call.op = "count_dir"
    /\ ~call.done
    /\ call.queue = <<>> \/ call.count >= DIR_SUMMARY_MAX_ITEMS
    /\ call' = [call EXCEPT
                   !.done = TRUE,
                   !.result = Num(Min(call.count, DIR_SUMMARY_MAX_ITEMS))]
    /\ UNCHANGED <<procs, learned_associations, tool_executions,
                   session_summaries, sqlite_sequence, clock, observed>>

NextWalk ==
    \/ CountDirLoop
    \/ CountDirReturn

\* a call that can take a step takes it: the loop is straight-line code of
\* one thread
SpecWalk == InitWalk /\ [][NextWalk]_vars /\ WF_vars(NextWalk)

(* ------------- the transcript strategy over all transcripts ------------ *)

LineKinds ==
    {Blank, Garbage, JsonArray, JsonNumber, ReadNullPath, ReadTextInput,
     ReadDocx, ReadPdf, ReadBare, ReadNoSkills, ReadOther, WriteSkill}

Transcripts == UNION {[1..n -> LineKinds] : n \in 0..MaxLines}

InitTranscript ==
    /\ learned_associations = EmptyTable
    /\ tool_executions = <<>>
    /\ session_summaries = EmptyTable
    /\ sqlite_sequence = 0
    /\ clock = 0
    /\ observed = EmptyTable
    /\ procs = NoProcs
    /\ \E lines \in Transcripts :
          call = [op |-> "transcript", lines |-> lines, done |-> FALSE,
                  result |-> None]

\* one call of _detect_from_transcript on an existing, readable file
ScanTranscript ==
    /\ call.op = "transcript"
    /\ ~call.done
    /\ call' = [call EXCEPT !.done = TRUE,
                            !.result = DetectFromTranscript(
                                [file |-> "text", lines |-> call.lines])]
    /\ UNCHANGED <<procs, learned_associations, tool_executions, session_summaries,
                   sqlite_sequence, clock, observed>>

NextTranscript == ScanTranscript

SpecTranscript == InitTranscript /\ [][NextTranscript]_vars


(* ---------------------------- properties ------------------------------- *)

IsDetect == call.op = "detect"

\* position of a strategy in the cascade
Rank(s) ==
    CASE s = "transcript" -> 1 [] s = "learned" -> 2
      [] s = "colbert" -> 3 [] s = "llm" -> 4

\* the entry of the trace for one strategy, as a set (empty if not called)
Called(s) == {call.trace[i] : i \in {j \in 1..Len(call.trace) :
                                        call.trace[j].s = s}}

\* the context key of the call's tool_name and tool_input
CallKey(c) == MakeContextKey(c.tool.tool_name, c.tool.tool_input)

C2_RunningMean ==
    /\ DOMAIN learned_associations = DOMAIN observed
    /\ \A k \in DOMAIN observed :
          /\ learned_associations[k].hit_count = observed[k].n
          /\ learned_associations[k].confidence =
                RatDivInt(observed[k].sum, observed[k].n)
          /\ learned_associations[k].skill_id = observed[k].last

\* a key learned with 1.0 and 0.5 (in either order): mean 3/4, two hits
C2_Witness ==
    \E k \in DOMAIN learned_associations :
        /\ learned_associations[k].hit_count = 2
        /\ learned_associations[k].confidence = Rat(3, 4)

\* a step that is one detect() call
DetectStep == call'.op = "detect" /\ clock' = clock + 1

\* C3 as stated: a detect() call whose context key already has an
\* association adds one to its hit_count
C3_DetectReinforces ==
    [][\A k \in DOMAIN learned_associations :
          (DetectStep /\ ~CallKey(call').raised /\ CallKey(call').key = k) =>
             learned_associations'[k].hit_count =
                 learned_associations[k].hit_count + 1]_vars

\* C3 amended: a detect() call leaves every existing association as it is
\* (skill_id, confidence, hit_count, created_at, updated_at); when the
\* transcript gives nothing it returns the stored skill of its context key
C3_DetectKeepsAssociation ==
    [][DetectStep =>
         /\ \A k \in DOMAIN learned_associations :
               /\ k \in DOMAIN learned_associations'
               /\ learned_associations'[k] = learned_associations[k]
         /\ \A k \in DOMAIN learned_associations :
               (~CallKey(call').raised /\ CallKey(call').key = k
                  /\ Called("transcript")' = {}) =>
                     call'.result = learned_associations[k].skill_id]_vars

\* a detect() call answered from an association learned earlier
C3_Witness ==
    /\ IsDetect
    /\ \E e \in Called("learned") : Truthy(e.r) /\ call.result = e.r
    /\ call.key \in DOMAIN learned_associations
    /\ learned_associations[call.key].hit_count = 1
    /\ learned_associations[call.key].updated_at < clock

\* C4: detect() returns a skill id or None and never raises
C4_NeverRaises ==
    IsDetect =>
      /\ ~call.raised
      /\ call.result.t \in {"str", "none"}

\* a line that is not a well-formed record: text json.loads rejects, a JSON
\* value that is not an object, or an object whose tool_input is not an
\* object or whose file_path is not a string
Malformed(line) ==
    \/ ~line.valid
    \/ line.v.t # "dict"
    \/ DictGet(line.v, "tool_input", Dict(<<>>)).t # "dict"
    \/ DictGet(DictGet(line.v, "tool_input", Dict(<<>>)), "file_path",
               Str(<<>>)).t # "str"

WellFormedLines(lines) == SelectSeq(lines, LAMBDA l : ~Malformed(l))

\* C5: the transcript strategy returns for a transcript what it returns for
\* the same transcript without its malformed lines
C5_MalformedSkipped ==
    (call.op = "transcript" /\ call.done) =>
        call.result = DetectFromTranscript(
            [file |-> "text", lines |-> WellFormedLines(call.lines)])

\* the skill id the last qualifying record of a transcript names (a Read of
\* a path containing SKILL.md with an <id> component after skills/)
LastQualifying(lines) ==
    LET reads == SelectSeq(lines, LAMBDA l : ScanLine(l).r = "read")
    IN IF reads = <<>> THEN None ELSE ScanLine(reads[Len(reads)]).id

\* C6: the transcript strategy returns the id of the last qualifying record
\* in file order, and no answer when no record qualifies
C6_LastReadWins ==
    (call.op = "transcript" /\ call.done) =>
        call.result = LastQualifying(call.lines)

\* the score of the top-1 result find-skill printed, None if it printed none
TopScore(colbert) ==
    IF /\ colbert.run.k = "exit"
       /\ colbert.run.code = 0
       /\ colbert.run.parsed
       /\ colbert.run.results.t = "list"
       /\ colbert.run.results.v # <<>>
       /\ colbert.run.results.v[1].t = "dict"
    THEN DictGet(colbert.run.results.v[1], "score", Num(0))
    ELSE None

\* C7: the semantic-index strategy accepts the top-1 result only if its
\* score is strictly greater than 0.5; on acceptance the association
\* context_key -> skill is in the store with confidence 0.8 when detect()
\* returns that skill; with a score of 0.5 or lower the strategy learns
\* nothing and the cascade goes on to the LLM strategy
C7_SemanticThreshold ==
    IsDetect =>
      \A e \in Called("colbert") :
        /\ Truthy(e.r) =>
             /\ TopScore(call.colbert).t = "int"
             /\ TopScore(call.colbert).v > 50
             /\ call.result = e.r
             /\ call.learned = Conf08
             /\ call.key \in DOMAIN learned_associations
             /\ learned_associations[call.key].skill_id = e.r
             /\ learned_associations[call.key].confidence = Conf08
        /\ (TopScore(call.colbert).t = "int"
              /\ TopScore(call.colbert).v <= 50) =>
             /\ ~Truthy(e.r)
             /\ call.learned # Conf08
             /\ call.llm.use_llm => Called("llm") # {}

\* a top-1 result just above the threshold, accepted and learned
C7_Witness ==
    /\ IsDetect
    /\ TopScore(call.colbert) = Num(51)
    /\ call.result = Str(Docx)
    /\ call.learned = Conf08
    /\ learned_associations[call.key].confidence = Conf08

\* C8: the LLM strategy runs only when use_llm is true and answers only when
\* an LLM command is found; an empty or "unknown" response gives no answer;
\* an accepted token is shorter than 50 characters and made of alphanumerics
\* and hyphens, and its association is in the store with confidence 0.6 when
\* detect() returns it
C8_LlmAcceptance ==
    IsDetect =>
      \A e \in Called("llm") :
        /\ call.llm.use_llm
        /\ ~call.llm.command => e.r = None
        /\ (call.llm.run.k = "exit"
              /\ Lower(Strip(call.llm.run.stdout)) \in {<<>>, Unknown}) =>
             e.r = None
        /\ Truthy(e.r) =>
             /\ call.llm.command
             /\ call.llm.run.k = "exit"
             /\ call.llm.run.code = 0
             /\ Len(e.r.v) < 50
             /\ \A i \in 1..Len(e.r.v) : IsAlnum(e.r.v[i]) \/ e.r.v[i] = "-"
             /\ call.result = e.r
             /\ call.learned = Conf06
             /\ call.key \in DOMAIN learned_associations
             /\ learned_associations[call.key].skill_id = e.r
             /\ learned_associations[call.key].confidence = Conf06

\* a quoted answer, unquoted, accepted and learned
C8_Witness ==
    /\ IsDetect
    /\ call.llm = Llm(TRUE, Said(Quoted(Pdf)))
    /\ call.result = Str(Pdf)
    /\ call.learned = Conf06
    /\ learned_associations[call.key].confidence = Conf06

\* C9: detect() with no transcript path, no learned association for the
\* computed context key, the semantic index unavailable and use_llm false
\* returns None
C9_NothingToGoOn ==
    [][(/\ DetectStep
        /\ ~call'.transcript.given
        /\ ~CallKey(call').raised
        /\ CallKey(call').key \notin DOMAIN learned_associations
        /\ ~call'.colbert.available
        /\ ~call'.llm.use_llm) =>
          /\ ~call'.raised
          /\ call'.result = None]_vars

\* Write of notes.docx, nothing available: no answer
C9_Witness ==
    /\ IsDetect
    /\ call.tool = WriteDocx
    /\ call.transcript = NoTranscript
    /\ call.colbert = ColbertMissing
    /\ ~call.llm.use_llm
    /\ Key1 \notin DOMAIN learned_associations
    /\ call.result = None

\* C10: only reset() removes a learned association: after any other
\* operation every key that had one still has one
C10_OnlyResetForgets ==
    [][call'.op # "reset" =>
         \A k \in DOMAIN learned_associations :
            /\ k \in DOMAIN learned_associations'
            /\ Truthy(get_learned_association(learned_associations', k))]_vars

\* an association that outlived a later store operation
C10_Witness ==
    /\ call.op \in {"log_tool_execution", "log_session_summary"}
    /\ \E k \in DOMAIN learned_associations :
          learned_associations[k].updated_at < clock

\* C11: the store holds one row for each context key learned since the last
\* reset and none for any other key; each row has hit_count >= 1 and a
\* confidence within [0, 1] (every confidence passed in is within [0, 1])
C11_AssociationInvariant ==
    /\ \A c \in Confidences : c.num >= 0 /\ c.num <= c.den
    /\ DOMAIN learned_associations = DOMAIN observed
    /\ \A k \in DOMAIN learned_associations :
          LET row == learned_associations[k] IN
          /\ row.hit_count >= 1
          /\ row.confidence.den >= 1
          /\ row.confidence.num >= 0
          /\ row.confidence.num <= row.confidence.den

\* two keys learned, one of them twice with different confidences
C11_Witness ==
    /\ Cardinality(DOMAIN learned_associations) = 2
    /\ \E k \in DOMAIN learned_associations :
          /\ learned_associations[k].hit_count = 2
          /\ learned_associations[k].confidence.den > 1

\* C12: the execution just logged is among the executions read back for
\* its session, with every field as it was logged
C12_RoundTrip ==
    call.op = "log_tool_execution" =>
        LET got == get_session_executions(tool_executions,
                                          call.execution.session_id)
        IN \E i \in DOMAIN got : got[i] = call.execution

\* the logged executions that satisfy P
Logged(P(_)) ==
    Cardinality({i \in DOMAIN tool_executions : P(tool_executions[i])})

\* the entry the claim expects for the executions that satisfy P
Expected(P(_)) ==
    LET total == Logged(P)
        successful == Logged(LAMBDA r : P(r) /\ r.success = 1)
    IN [total |-> total, successful |-> successful,
        failed |-> total - successful,
        success_rate |-> IF total = 0 THEN Rat(0, 1)
                         ELSE Rat(successful, total)]

\* C13: get_skill_stats (filtered by a skill or not) reports exactly the
\* skills that have executions, get_tool_usage_stats exactly the tools that
\* have some, each with total = its logged executions, successful = those
\* that succeeded, failed = total - successful and
\* success_rate = successful / total
C13_Stats ==
    /\ \A s \in SkillIds :
          LET stats == get_skill_stats(tool_executions, s) IN
          /\ DOMAIN stats =
                 IF Logged(LAMBDA r : r.skill_used = s) > 0 THEN {s} ELSE {}
          /\ \A k \in DOMAIN stats :
                stats[k] = Expected(LAMBDA r : r.skill_used = k)
    /\ \A none \in {None, Str(<<>>)} :
          LET stats == get_skill_stats(tool_executions, none) IN
          /\ DOMAIN stats =
                 {s \in SkillIds : Logged(LAMBDA r : r.skill_used = s) > 0}
          /\ \A k \in DOMAIN stats :
                stats[k] = Expected(LAMBDA r : r.skill_used = k)
    /\ LET stats == get_tool_usage_stats(tool_executions) IN
       /\ DOMAIN stats =
              {t \in {"Write", "Bash"} :
                  Logged(LAMBDA r : r.tool_name = t) > 0}
       /\ \A k \in DOMAIN stats :
             stats[k] = Expected(LAMBDA r : r.tool_name = k)

\* three executions of docx of which one failed: the success rate is 2/3,
\* for the skill and for the one tool that ran them
C13_Witness ==
    /\ Len(tool_executions) = 3
    /\ Str(Docx) \in DOMAIN get_skill_stats(tool_executions, Str(Docx))
    /\ get_skill_stats(tool_executions, Str(Docx))[Str(Docx)] =
           [total |-> 3, successful |-> 2, failed |-> 1,
            success_rate |-> [num |-> 2, den |-> 3]]
    /\ DOMAIN get_tool_usage_stats(tool_executions) = {"Bash"}

\* the limits passed to get_common_errors
Limits == {0, 1, 2, 5}

\* the failed executions with an error message, of one skill or of all
Errors(skill_id) ==
    {i \in DOMAIN tool_executions :
        /\ skill_id # None => tool_executions[i].skill_used = skill_id
        /\ tool_executions[i].success = 0
        /\ tool_executions[i].error_message # NULL}

Occurrences(skill_id, message) ==
    Cardinality({i \in Errors(skill_id) :
                    tool_executions[i].error_message = message})

\* C14: with a skill filter and without one get_common_errors returns
\* min(limit, number of distinct messages) entries, one per distinct error
\* message of the failed executions that have one, each with its number of
\* occurrences, by descending count, no omitted message occurring more often
\* than a listed one
C14_CommonErrors ==
    \A skill_id \in {None} \cup SkillIds, limit \in Limits :
        LET got == get_common_errors(tool_executions, skill_id, limit)
            messages == {tool_executions[i].error_message :
                            i \in Errors(skill_id)}
        IN /\ ~got.raised
           /\ Len(got.result) = Min(limit, Cardinality(messages))
           /\ \A i \in DOMAIN got.result :
                 /\ got.result[i].error \in messages
                 /\ got.result[i].count =
                        Occurrences(skill_id, got.result[i].error)
                 /\ \A j \in DOMAIN got.result :
                       /\ i < j => got.result[i].count >= got.result[j].count
                       /\ i # j => got.result[i].error # got.result[j].error
                 /\ \A other \in messages :
                       (\A j \in DOMAIN got.result :
                            got.result[j].error # other)
                           => Occurrences(skill_id, other)
                                  <= got.result[i].count

\* C15: a log_tool_execution step appends one record whose id, the id it
\* returns, exceeds the ids of all records and every id handed out before
\* (sqlite_sequence, which never decreases), and keeps the existing records
\* as they were; a step of any other operation but reset leaves the
\* records alone
C15_AppendOnly ==
    [][/\ sqlite_sequence' >= sqlite_sequence
       /\ call'.op = "log_tool_execution" =>
             /\ Len(tool_executions') = Len(tool_executions) + 1
             /\ \A i \in DOMAIN tool_executions :
                   /\ tool_executions'[i] = tool_executions[i]
                   /\ tool_executions[i].id < call'.id
             /\ tool_executions'[Len(tool_executions')].id = call'.id
             /\ call'.id > sqlite_sequence
             /\ sqlite_sequence' = call'.id
       /\ call'.op \notin {"log_tool_execution", "reset"} =>
             tool_executions' = tool_executions]_vars

\* a third execution logged after two that are still there
C15_Witness ==
    /\ call.op = "log_tool_execution"
    /\ Len(tool_executions) = 3
    /\ call.id = 3

\* the processes that were started for the operation op
Running(op) == {p \in Procs : procs.of[p].request.op = op}

RECURSIVE SumOfConfidences(_)
SumOfConfidences(ps) ==
    IF ps = {} THEN Rat(0, 1)
    ELSE LET p == CHOOSE q \in ps : TRUE IN
         RatAdd(procs.of[p].request.confidence, SumOfConfidences(ps \ {p}))

AllDone == \A p \in Procs : procs.of[p].pc = "done"

\* C16: when every process has returned, the key that m of them learned
\* (from no prior association) has one row with hit_count = m and the mean
\* of their m confidences, and every process that logged an execution got
\* an id of its own, under which the log holds its execution, and the log
\* holds nothing else
C16_NoLostUpdate ==
    AllDone =>
        LET learners == Running("learn_association")
            loggers == Running("log_tool_execution")
            m == Cardinality(learners)
        IN /\ m > 0 =>
                /\ Key1 \in DOMAIN learned_associations
                /\ learned_associations[Key1].hit_count = m
                /\ learned_associations[Key1].confidence =
                       RatDivInt(SumOfConfidences(learners), m)
           /\ m = 0 => learned_associations = EmptyTable
           /\ Len(tool_executions) = Cardinality(loggers)
           /\ \A p, q \in loggers :
                 p # q => procs.of[p].returned # procs.of[q].returned
           /\ \A p \in loggers :
                 \E i \in DOMAIN tool_executions :
                    /\ Num(tool_executions[i].id) = procs.of[p].returned
                    /\ RowToExecution(tool_executions[i])
                           = procs.of[p].request.execution
                    /\ \A j \in DOMAIN tool_executions :
                          tool_executions[j].id = tool_executions[i].id
                              => j = i

\* two processes learned the key with different confidences while a third
\* logged an execution, and all have returned
C16_Witness ==
    /\ AllDone
    /\ Cardinality(Running("learn_association")) >= 2
    /\ Running("log_tool_execution") # {}
    /\ Key1 \in DOMAIN learned_associations
    /\ learned_associations[Key1].confidence.den > 1

\* C17: every run of the post-tool-use handler ends with exit status 0,
\* whatever stdin holds and whether or not detection and the store fail
C17_HookExitsZero ==
    (call.op = "hook" /\ call.done) => call.exit = 0

\* the files below a directory that are neither hidden nor ignored, nor
\* inside a directory that is
RECURSIVE MatchingFiles(_, _, _)
MatchingFiles(rules, entries, parts) ==
    IF entries = <<>> THEN 0
    ELSE LET entry == Head(entries)
             rel == Append(parts, entry.name)
         IN (IF Hidden(entry.name) \/ is_ignored(rules, rel, entry.is_dir)
             THEN 0
             ELSE IF entry.is_dir
             THEN MatchingFiles(rules, entry.entries, rel)
             ELSE entry.n)
            + MatchingFiles(rules, Tail(entries), parts)

\* the top-level entries of a root that are not hidden and that no rule of
\* its .gitignore ignores, and those a rule ignores
Kept(root) ==
    {i \in DOMAIN root.entries :
        /\ ~Hidden(root.entries[i].name)
        /\ ~is_ignored(from_root(root.gitignore), <<root.entries[i].name>>,
                       root.entries[i].is_dir)}

Ignored(root) ==
    {i \in DOMAIN root.entries :
        is_ignored(from_root(root.gitignore), <<root.entries[i].name>>,
                   root.entries[i].is_dir)}

Snapshot == call.op = "create_snapshot"

\* C18: every top-level directory with more than 1000 matching files has
\* the count 1000 in directory_summary, under the fast enumerator and under
\* the fallback walk, and no count is above 1000
C18_CapExactly1000 ==
    Snapshot =>
        LET root == call.root
            summary == call.snapshot.directory_summary
        IN /\ \A i \in Kept(root) :
                 (/\ root.entries[i].is_dir
                  /\ MatchingFiles(from_root(root.gitignore),
                                   root.entries[i].entries,
                                   <<root.entries[i].name>>)
                         > DIR_SUMMARY_MAX_ITEMS)
                 => /\ root.entries[i].name \in DOMAIN summary
                    /\ summary[root.entries[i].name] = DIR_SUMMARY_MAX_ITEMS
           /\ \A name \in DOMAIN summary :
                 summary[name] <= DIR_SUMMARY_MAX_ITEMS

\* C19: run_hints has at most 20 entries of at most 200 characters each and
\* no entry twice, whatever documentation files the root holds
C19_RunHintsBounded ==
    Snapshot =>
        LET hints == call.snapshot.run_hints
        IN /\ Len(hints) <= MAX_HINT_LINES
           /\ \A i \in DOMAIN hints : Len(hints[i]) <= MAX_HINT_LINE_LENGTH
           /\ \A i, j \in DOMAIN hints : hints[i] = hints[j] => i = j

\* the entries of a name that top_level lists
Listed(top_level, name) ==
    Total(SelectSeq(top_level, LAMBDA e : e.name = name))

\* C20 as stated: no top-level entry that a rule of the root .gitignore
\* ignores is in top_level or directory_summary, and every entry that is
\* not hidden and not ignored is in top_level, a directory also in
\* directory_summary
C20_IgnoredAbsentKeptPresent ==
    Snapshot =>
        LET root == call.root
            top_level == call.snapshot.top_level
            summary == call.snapshot.directory_summary
        IN /\ \A i \in Ignored(root) :
                 /\ Listed(top_level, root.entries[i].name) = 0
                 /\ root.entries[i].name \notin DOMAIN summary
           /\ \A i \in Kept(root) :
                 /\ Listed(top_level, root.entries[i].name) = root.entries[i].n
                 /\ root.entries[i].is_dir
                        => root.entries[i].name \in DOMAIN summary

\* the top-level directories below which fd lists a file
ListedDirs(root, fd) ==
    LET fd_files == fd_list(root, [ok |-> TRUE, order |-> fd.order],
                            TRUE, NoMaxDepth, FD_MAX_RESULTS, {"f"})
    IN {root.entries[i].name : i \in
           {i \in Kept(root) :
               /\ root.entries[i].is_dir
               /\ \E k \in DOMAIN fd_files.items :
                     StartsWith(fd_files.items[k].line,
                                Append(root.entries[i].name, "/"))}}

\* C20: no top-level entry that a rule of the root .gitignore ignores is in
\* top_level or directory_summary. top_level lists entries that are not
\* hidden and not ignored, with their types: all of them when they are at
\* most 50, and 50 of them otherwise. directory_summary has the top-level
\* directories that are not hidden and not ignored: all of them under the
\* fallback walk, and under the fast enumerator those below which it lists
\* a file.
C20_IgnoredAbsent ==
    Snapshot =>
        LET root == call.root
            top_level == call.snapshot.top_level
            summary == call.snapshot.directory_summary
            kept == {root.entries[i].name : i \in Kept(root)}
            kept_dirs == {root.entries[i].name :
                             i \in {k \in Kept(root) : root.entries[k].is_dir}}
        IN /\ \A i \in Ignored(root) :
                 /\ Listed(top_level, root.entries[i].name) = 0
                 /\ root.entries[i].name \notin DOMAIN summary
           /\ \A k \in DOMAIN top_level :
                 \E i \in Kept(root) :
                    /\ top_level[k].name = root.entries[i].name
                    /\ top_level[k].type
                           = (IF root.entries[i].is_dir THEN "dir" ELSE "file")
                    /\ Listed(top_level, top_level[k].name) <= root.entries[i].n
           /\ Total(top_level)
                  = Min(MAX_TOP_LEVEL_ENTRIES,
                        Total([k \in 1..Len(root.entries) |->
                                 IF k \in Kept(root) THEN root.entries[k]
                                 ELSE [root.entries[k] EXCEPT !.n = 0]]))
           /\ DOMAIN summary = (IF call.fd.summary_ok
                                THEN ListedDirs(root, call.fd)
                                ELSE kept_dirs)

\* the tree of test_respects_root_gitignore under its two rules, walked
\* without fd: top_level lists kept_dir and keep.txt, directory_summary has
\* kept_dir
C20_Witness ==
    /\ Snapshot
    /\ ~call.fd.top_ok
    /\ ~call.fd.summary_ok
    /\ Cardinality(Ignored(call.root)) = 2
    /\ {call.snapshot.top_level[k].name : k \in DOMAIN call.snapshot.top_level}
           = {KeptDir, KeepTxt}
    /\ DOMAIN call.snapshot.directory_summary = {KeptDir}

\* the rules of a call of is_ignored that apply to its path: a
\* directory-only rule applies to a directory only; an anchored pattern or
\* one with a "/" is held against the whole path, any other against every
\* segment
Matching ==
    {i \in DOMAIN call.rules :
        /\ call.rules[i].dir_only => call.is_dir
        /\ IF call.rules[i].anchored \/ Contains(call.rules[i].pattern, <<"/">>)
           THEN fnmatchcase(JoinSlash(call.parts), call.rules[i].pattern)
           ELSE \E k \in DOMAIN call.parts :
                   fnmatchcase(call.parts[k], call.rules[i].pattern)}

\* C21: is_ignored returns the polarity of the last rule, in file order,
\* that matches the path, and FALSE when no rule matches; directory-only
\* rules apply to directories only, anchored and "/"-containing patterns to
\* the whole relative path, slash-free patterns to every segment
C21_LastMatchingRuleWins ==
    call.op = "is_ignored" =>
        call.ignored = (/\ Matching # {}
                        /\ \E i \in Matching :
                              /\ \A j \in Matching : j <= i
                              /\ ~call.rules[i].negate)

\* two rules matched the path and the second, a ! rule, decided: the path
\* is not ignored
C21_Witness ==
    /\ call.op = "is_ignored"
    /\ Matching = {1, 2}
    /\ ~call.rules[1].negate
    /\ call.rules[2].negate
    /\ ~call.ignored

\* a directory summary as the set of its (name, count) pairs
SummaryPairs(summary) == {<<name, summary[name]>> : name \in DOMAIN summary}

\* the entries of a top-level listing, whatever their order
EntrySet(top_level) == {top_level[k] : k \in DOMAIN top_level}

\* fd as it ran for the snapshot, but with neither run succeeding
WithoutFd == [call.fd EXCEPT !.top_ok = FALSE, !.summary_ok = FALSE]

\* C22: what the fast enumerator gives for a root, the fallback walk gives
\* for it too: the same top_level entries, and the same directory_summary
\* keys and counts
C22_StrategiesAgree ==
    (Snapshot /\ call.fd.top_ok /\ call.fd.summary_ok) =>
        /\ EntrySet(call.snapshot.top_level)
               = EntrySet(get_top_level_entries(call.root, WithoutFd))
        /\ SummaryPairs(call.snapshot.directory_summary)
               = SummaryPairs(get_directory_summary(call.root, WithoutFd))

\* C23: a second snapshot of the same root with the same tools available
\* has the same top_level, entry by entry, and the same directory_summary,
\* whatever the order in which fd finds the entries this time
C23_Deterministic ==
    Snapshot =>
        \A order \in {"forward", "reverse"} :
            LET again == [call.fd EXCEPT !.order = order]
            IN /\ get_top_level_entries(call.root, again)
                      = call.snapshot.top_level
               /\ SummaryPairs(get_directory_summary(call.root, again))
                      = SummaryPairs(call.snapshot.directory_summary)

\* C24: when the branch, the status or the log query fails, the snapshot
\* has git_available = FALSE and no branch, status or recent commits;
\* git_available is TRUE only when all three succeeded
C24_AnyFailureMeansUnavailable ==
    (Snapshot /\ "git" \in DOMAIN call) =>
        LET failed == None \in {call.git.branch, call.git.status, call.git.log}
        IN /\ failed => /\ ~call.info.git_available
                        /\ call.info.branch = None
                        /\ call.info.status = <<>>
                        /\ call.info.recent_commits = <<>>
           /\ call.info.git_available => ~failed

\* C28: detect never returns the empty string or the token unknown as a
\* skill id, and no learned association holds either, whatever the LLM
\* answers
C28_NoUnknownSkill ==
    /\ IsDetect => call.result \notin {Str(<<>>), Str(Unknown)}
    /\ \A key \in DOMAIN learned_associations :
          learned_associations[key].skill_id \notin {Str(<<>>), Str(Unknown)}

\* C27: the detector a run of the post-tool-use handler builds never calls
\* the LLM strategy
C27_HookWithoutLlm ==
    (call.op = "hook" /\ call.done) =>
        \A i \in DOMAIN call.trace : call.trace[i].s # "llm"

\* the processes a run of call_claude started
Agents == {c \in DOMAIN procs.of : procs.of[c].by = "call_claude"}

\* C25: a process inside call_claude, nested or not, has the guard at "1",
\* and so has every agent the call starts; outside every call, after a return
\* of any outcome, the guard is what it was before the first call (unset when
\* it was unset)
C25_GuardSetAndRestored ==
    /\ \A p \in DOMAIN procs.of :
          procs.of[p].kind = "voyager" =>
              IF procs.of[p].stack # <<>>
              THEN is_internal_call(procs.of[p].environ)
              ELSE procs.of[p].environ = procs.of[p].at_start
    /\ \A c \in Agents : is_internal_call(procs.of[c].environ)

\* an outer call that started with the guard unset returns on a timeout after
\* it and a call nested in it ran their agents
C25_Witness ==
    /\ call.op = "call_claude"
    /\ call.step = "return"
    /\ call.depth = 1
    /\ call.outcome = "timeout"
    /\ procs.of[1].at_start = Environ(None)
    /\ Cardinality(Agents) = 2

\* the LLM processes the program started: the agents of call_claude and
\* the commands of the detector's LLM strategy
StartedLlms ==
    {c \in DOMAIN procs.of : procs.of[c].by \in {"call_claude", "detector"}}

\* C29: every LLM process the program starts has the recursion guard set,
\* and a hook fired by such a process ends at the guard, without detection
\* and without a logged execution
C29_StartedLlmsGuarded ==
    /\ \A c \in StartedLlms : is_internal_call(procs.of[c].environ)
    /\ \A h \in DOMAIN procs.of :
          (procs.of[h].kind = "hook" /\ procs.of[h].parent \in StartedLlms) =>
              /\ procs.of[h].pc # "waiting"
              /\ procs.of[h].pc = "exited" => procs.of[h].note = "internal"

\* C30: while detect calls run concurrently, an association keeps the
\* skill_id it was first learned with
C30_LearnedSkillKept ==
    [][\A k \in DOMAIN learned_associations :
          /\ k \in DOMAIN learned_associations'
          /\ learned_associations'[k].skill_id
                 = learned_associations[k].skill_id]_vars

\* count_dir lists no directory below depth DIR_SUMMARY_MAX_DEPTH and none
\* it reached through a symbolic link, goes on only while it has counted
\* fewer than DIR_SUMMARY_MAX_ITEMS items, and returns a count from 0 to
\* DIR_SUMMARY_MAX_ITEMS
WalkBounded ==
    call.op = "count_dir" =>
        /\ \A i \in DOMAIN call.listed :
              /\ call.listed[i].depth <= DIR_SUMMARY_MAX_DEPTH
              /\ call.listed[i].kind # "link"
        /\ ~call.done => call.count < DIR_SUMMARY_MAX_ITEMS
        /\ call.done => call.result.v \in 0..DIR_SUMMARY_MAX_ITEMS

\* C26: on every tree, with symlink cycles or of unbounded depth, the
\* fallback walk of a top-level directory stays within its depth and item
\* bounds, follows no symbolic link, and returns
C26_WalkTerminates == []WalkBounded /\ <>(call.op = "count_dir" /\ call.done)

\* the walk of a tree of unbounded depth with a symlink cycle has returned,
\* having listed a directory at depth DIR_SUMMARY_MAX_DEPTH
C26_Witness ==
    /\ call.op = "count_dir"
    /\ call.done
    /\ \E d \in DOMAIN call.fs.dirs :
          \E i \in DOMAIN call.fs.dirs[d] : call.fs.dirs[d][i].kind = "link"
    /\ \E d \in DOMAIN call.fs.dirs :
          \E i \in DOMAIN call.fs.dirs[d] :
             call.fs.dirs[d][i].kind = "dir" /\ call.fs.dirs[d][i].to = d
    /\ \E i \in DOMAIN call.listed :
          call.listed[i].depth = DIR_SUMMARY_MAX_DEPTH
====
